---- MODULE Spec2Model ----
(***************************************************************************)
(* Orchestration engine of AgenticMentor: capability registry, execution   *)
(* planner (upstream / downstream resolution and phase filter), the        *)
(* request loop of MasterOrchestrator over the StateManager, and the       *)
(* review / retry loop of BaseAgent.                                       *)
(***************************************************************************)
EXTENDS Integers, Sequences, FiniteSets, TLC

None == "__none__"

Range(s) == {s[i] : i \in 1..Len(s)}

(***************************************************************************)
(* Bounds of the model                                                     *)
(***************************************************************************)
\* longest requested capability list drawn for the planner
MaxReq == 2
\* requests made on the session in one behaviour
MaxTurns == 2
\* longest capability list the LLM classifier is taken to return
MaxLLMAgents == 1

(***************************************************************************)
(* Capability registry  (orchestrator/agent_store.py)                      *)
(***************************************************************************)
\* a registry whose mockup agent requires an artifact nothing produces
AGENT_STORE_unclosed ==
  << [id |-> "requirements_collector",
      requires |-> << >>,
      produces |-> << "requirements" >>,
      phase_compatibility |-> << "initialization", "discovery", "*" >>],
     [id |-> "project_architect",
      requires |-> << "requirements" >>,
      produces |-> << "architecture" >>,
      phase_compatibility |-> << "requirements_complete", "architecture_complete" >>],
     [id |-> "execution_planner",
      requires |-> << "architecture" >>,
      produces |-> << "roadmap" >>,
      phase_compatibility |-> << "architecture_complete" >>],
     [id |-> "mockup_agent",
      requires |-> << "requirements", "wireframes" >>,
      produces |-> << "mockups" >>,
      phase_compatibility |-> << "requirements_complete" >>],
     [id |-> "exporter",
      requires |-> << "*" >>,
      produces |-> << "export" >>,
      phase_compatibility |-> << "*" >>] >>

AGENT_STORE ==
  << [id |-> "requirements_collector",
      requires |-> << >>,
      produces |-> << "requirements" >>,
      phase_compatibility |-> << "initialization", "discovery", "*" >>],
     [id |-> "project_architect",
      requires |-> << "requirements" >>,
      produces |-> << "architecture" >>,
      phase_compatibility |-> << "requirements_complete", "architecture_complete" >>],
     [id |-> "execution_planner",
      requires |-> << "architecture" >>,
      produces |-> << "roadmap" >>,
      phase_compatibility |-> << "architecture_complete" >>],
     [id |-> "mockup_agent",
      requires |-> << "requirements", "architecture" >>,
      produces |-> << "mockups" >>,
      phase_compatibility |-> << "requirements_complete" >>],
     [id |-> "exporter",
      requires |-> << "*" >>,
      produces |-> << "export" >>,
      phase_compatibility |-> << "*" >>] >>

FULL_PIPELINE_AGENT_IDS ==
  << "requirements_collector", "project_architect", "execution_planner",
     "mockup_agent", "exporter" >>

\* an id that is in no registry entry
GhostId == "ghost_agent"

RegistryIds == {AGENT_STORE[i].id : i \in 1..Len(AGENT_STORE)}

\* the ids a caller may request: the registry's and one unknown id
RequestIds == RegistryIds \cup {GhostId}

RECURSIVE SeqsUpTo(_, _)
SeqsUpTo(S, n) ==
  IF n = 0 THEN { << >> }
  ELSE LET shorter == SeqsUpTo(S, n - 1)
       IN  shorter \cup { Append(q, x) : q \in shorter, x \in S }

\* the ProjectState fields that hold artifacts (state/project_state.py)
ArtifactFields == {"requirements", "architecture", "mockups", "roadmap"}

\* the phase labels the registry and the transition map mention
Phases ==
  {"initialization", "discovery", "requirements_complete",
   "architecture_complete", "planning_complete", "design_complete",
   "exportable"}

\* index of the first registry entry with this id, 0 when there is none
RECURSIVE FirstIndexWithId(_, _)
FirstIndexWithId(agent_id, i) ==
  IF i > Len(AGENT_STORE) THEN 0
  ELSE IF AGENT_STORE[i].id = agent_id THEN i
  ELSE FirstIndexWithId(agent_id, i + 1)

\* what get_agent_by_id returns for an id the registry lacks (Python None)
NoEntry ==
  [id |-> None, requires |-> << >>, produces |-> << >>,
   phase_compatibility |-> << >>]

get_agent_by_id(agent_id) ==
  LET i == FirstIndexWithId(agent_id, 1)
  IN  IF i = 0 THEN NoEntry ELSE AGENT_STORE[i]

RECURSIVE FirstIndexProducing(_, _)
FirstIndexProducing(artifact, i) ==
  IF i > Len(AGENT_STORE) THEN 0
  ELSE IF artifact \in Range(AGENT_STORE[i].produces) THEN i
  ELSE FirstIndexProducing(artifact, i + 1)

\* every artifact is taken to be produced by the architect, which itself
\* requires one: the relation requires/produces has a cycle
get_producer_for_artifact_self(artifact) == "project_architect"

get_producer_for_artifact(artifact) ==
  LET i == FirstIndexProducing(artifact, 1)
  IN  IF i = 0 THEN None ELSE AGENT_STORE[i].id

(***************************************************************************)
(* Execution planner  (orchestrator/execution_planner.py)                  *)
(* The session state enters the planner only through _state_has_artifact,  *)
(* so it is represented by has : ArtifactFields -> BOOLEAN, TRUE when the  *)
(* field holds a non-empty value.                                          *)
(***************************************************************************)
\* no artifact is ever found in the session state
state_has_artifact_never(has, key) == key = "*"

state_has_artifact(has, key) ==
  IF key = "*" THEN TRUE
  ELSE IF key \in DOMAIN has THEN has[key]
  ELSE FALSE

\* the planner's pair of locals: the set seen and the list result
EmptyResolution == [seen |-> {}, result |-> << >>]

\* an id is appended and the visited set is left as it was
Mark_forgetting(st, aid) ==
  [seen |-> st.seen, result |-> Append(st.result, aid)]

Mark(st, aid) ==
  [seen |-> st.seen \cup {aid}, result |-> Append(st.result, aid)]

\* a requester appended without resolving what it requires
add_without_deps(aid, st, has) ==
  IF aid \in st.seen THEN st ELSE Mark(st, aid)

RECURSIVE add_with_deps(_, _, _)
RECURSIVE ResolveRequires(_, _, _, _)
add_with_deps(aid, st, has) ==
  IF aid \in st.seen THEN st
  ELSE LET entry == get_agent_by_id(aid)
       IN  IF entry = NoEntry THEN Mark(st, aid)
           ELSE IF "*" \in Range(entry.requires) THEN Mark(st, aid)
           ELSE Mark(ResolveRequires(entry.requires, 1, st, has), aid)

\* the loop "for art in requires" of add_with_deps
ResolveRequires(requires, k, st, has) ==
  IF k > Len(requires) THEN st
  ELSE LET art == requires[k]
           producer == get_producer_for_artifact(art)
           st2 == IF state_has_artifact(has, art) THEN st
                  ELSE IF producer # None THEN add_with_deps(producer, st, has)
                  ELSE st
       IN  ResolveRequires(requires, k + 1, st2, has)

RECURSIVE ResolveEach(_, _, _, _)
ResolveEach(agent_ids, k, st, has) ==
  IF k > Len(agent_ids) THEN st
  ELSE ResolveEach(agent_ids, k + 1, add_with_deps(agent_ids[k], st, has), has)

resolve_upstream(agent_ids, has) ==
  ResolveEach(agent_ids, 1, EmptyResolution, has).result

\* artifacts produced by the capabilities currently in result
Produced(result) ==
  UNION { IF get_agent_by_id(result[i]) = NoEntry THEN {}
          ELSE Range(get_agent_by_id(result[i]).produces) : i \in 1..Len(result) }

\* "for nid in new_ids: if nid not in seen: ..." of _resolve_downstream
RECURSIVE AppendUnseen(_, _, _)
AppendUnseen(new_ids, k, acc) ==
  IF k > Len(new_ids) THEN acc
  ELSE IF new_ids[k] \in acc.seen THEN AppendUnseen(new_ids, k + 1, acc)
  ELSE AppendUnseen(new_ids, k + 1,
         [seen |-> acc.seen \cup {new_ids[k]},
          result |-> Append(acc.result, new_ids[k]),
          changed |-> TRUE])

\* one pass "for entry in AGENT_STORE" with produced fixed for the pass
RECURSIVE DownstreamPass(_, _, _, _)
DownstreamPass(i, produced, acc, has) ==
  IF i > Len(AGENT_STORE) THEN acc
  ELSE LET entry == AGENT_STORE[i]
       IN  IF entry.id \in acc.seen THEN DownstreamPass(i + 1, produced, acc, has)
           ELSE IF "*" \in Range(entry.requires) THEN DownstreamPass(i + 1, produced, acc, has)
           ELSE IF Range(entry.requires) \cap produced # {}
                THEN DownstreamPass(i + 1, produced,
                       AppendUnseen(resolve_upstream(<< entry.id >>, has), 1, acc), has)
           ELSE DownstreamPass(i + 1, produced, acc, has)

\* a single pass over the registry, whatever it added
DownstreamLoop_once(acc, has) ==
  DownstreamPass(1, Produced(acc.result),
    [seen |-> acc.seen, result |-> acc.result, changed |-> FALSE], has)

\* the loop "while changed"
RECURSIVE DownstreamLoop(_, _)
DownstreamLoop(acc, has) ==
  LET pass == DownstreamPass(1, Produced(acc.result),
                [seen |-> acc.seen, result |-> acc.result, changed |-> FALSE], has)
  IN  IF pass.changed THEN DownstreamLoop(pass, has) ELSE pass

resolve_downstream(resolved_ids, has) ==
  DownstreamLoop([seen |-> Range(resolved_ids), result |-> resolved_ids,
                  changed |-> TRUE], has).result

\* the default taken only when the list is empty, whatever the intent label
requested_or_default_ignoring_label(intent) ==
  IF intent.requires_agents = << >> THEN FULL_PIPELINE_AGENT_IDS
  ELSE intent.requires_agents

\* plan(), lines 118-121: the requested ids, or the full pipeline
requested_or_default(intent) ==
  IF intent.requires_agents = << >> \/ intent.primary_intent = "unknown"
  THEN FULL_PIPELINE_AGENT_IDS
  ELSE intent.requires_agents

\* every entry is kept, whatever the phase
phase_compatible_ignored(entry, phase) == TRUE

phase_compatible(entry, phase) ==
  "*" \in Range(entry.phase_compatibility) \/ phase \in Range(entry.phase_compatibility)

\* plan(), lines 128-137: drop unknown ids and phase-incompatible entries
\* an id the registry does not know is given a task like any other
RECURSIVE PlanTasksKeepingUnknown(_, _, _)
PlanTasksKeepingUnknown(resolved, k, phase) ==
  IF k > Len(resolved) THEN << >>
  ELSE LET entry == get_agent_by_id(resolved[k])
           rest == PlanTasksKeepingUnknown(resolved, k + 1, phase)
       IN  IF entry # NoEntry /\ ~phase_compatible(entry, phase) THEN rest
           ELSE << [agent_id |-> resolved[k], required_context |-> entry.requires] >> \o rest

RECURSIVE PlanTasks(_, _, _)
PlanTasks(resolved, k, phase) ==
  IF k > Len(resolved) THEN << >>
  ELSE LET entry == get_agent_by_id(resolved[k])
           rest == PlanTasks(resolved, k + 1, phase)
       IN  IF entry = NoEntry THEN rest
           ELSE IF ~phase_compatible(entry, phase) THEN rest
           ELSE << [agent_id |-> resolved[k], required_context |-> entry.requires] >> \o rest

plan(intent, has, phase) ==
  PlanTasks(resolve_downstream(resolve_upstream(requested_or_default(intent), has), has),
            1, phase)

PlanIds(p) == [i \in 1..Len(p) |-> p[i].agent_id]

(***************************************************************************)
(* Intent classifier  (orchestrator/intent_classifier.py)                  *)
(* An utterance is the sequence of its words; a keyword occurs in the      *)
(* text when it is one of the words of the lowercased text.                *)
(***************************************************************************)
INTENT_PATTERNS ==
  << [name |-> "requirements_gathering",
      keywords |-> << "need", "want", "goal", "problem", "user story" >>,
      phase_compatibility |-> << "initialization", "discovery" >>,
      triggers |-> << "clarify", "what if", "constraints" >>],
     [name |-> "architecture_design",
      keywords |-> << "architecture", "tech stack", "database", "API" >>,
      phase_compatibility |-> << "requirements_complete" >>,
      triggers |-> << "diagram", "structure", "how does" >>],
     [name |-> "mockup_creation",
      keywords |-> << "UI", "screen", "flow", "wireframe", "design" >>,
      phase_compatibility |-> << "requirements_complete" >>,
      triggers |-> << "looks like", "user journey" >>],
     [name |-> "execution_planning",
      keywords |-> << "roadmap", "timeline", "milestone", "sprint" >>,
      phase_compatibility |-> << "architecture_complete" >>,
      triggers |-> << "how long", "when", "priority" >>],
     [name |-> "export",
      keywords |-> << "export", "download", "document", "PDF" >>,
      phase_compatibility |-> << "*" >>,
      triggers |-> << "generate", "compile" >>] >>

INTENT_TO_AGENTS(intent_name) ==
  CASE intent_name = "requirements_gathering" -> << "requirements_collector" >>
    [] intent_name = "architecture_design" -> << "project_architect" >>
    [] intent_name = "mockup_creation" -> << "mockup_agent" >>
    [] intent_name = "execution_planning" -> << "execution_planner" >>
    [] intent_name = "export" -> << "exporter" >>
    [] OTHER -> << >>

\* str.lower() on one word
LowerWord(w) ==
  CASE w = "I" -> "i"
    [] w = "PDF" -> "pdf"
    [] w = "API" -> "api"
    [] w = "UI" -> "ui"
    [] OTHER -> w

\* (user_input or "").lower().strip(): blank words fall off both ends
IsBlank(w) == w \in {"", " "}

RECURSIVE StripLeft(_)
StripLeft(ws) ==
  IF ws = << >> THEN ws
  ELSE IF IsBlank(Head(ws)) THEN StripLeft(Tail(ws)) ELSE ws

RECURSIVE StripRight(_)
StripRight(ws) ==
  IF ws = << >> THEN ws
  ELSE IF IsBlank(ws[Len(ws)]) THEN StripRight(SubSeq(ws, 1, Len(ws) - 1)) ELSE ws

Strip(ws) == StripRight(StripLeft(ws))

\* the utterance is compared as it was typed
Lower_unchanged(ws) == ws

Lower(ws) == [i \in 1..Len(ws) |-> LowerWord(ws[i])]

\* sum(1 for k in keywords + triggers if k in text); the text is a sequence
\* of words and a keyword is found when it is one of them
RECURSIVE CountHits(_, _, _)
CountHits(ks, i, text) ==
  IF i > Len(ks) THEN 0
  ELSE (IF ks[i] \in Range(text) THEN 1 ELSE 0) + CountHits(ks, i + 1, text)

\* the loop keeps the last intent whose score is not below the best
RECURSIVE BestIntentLastWins(_, _, _, _)
BestIntentLastWins(i, text, current_phase, best) ==
  IF i > Len(INTENT_PATTERNS) THEN best
  ELSE LET pattern == INTENT_PATTERNS[i]
           phases == Range(pattern.phase_compatibility)
           score == CountHits(pattern.keywords \o pattern.triggers, 1, text)
       IN  IF "*" \notin phases /\ current_phase \notin phases
           THEN BestIntentLastWins(i + 1, text, current_phase, best)
           ELSE IF score >= best.score
           THEN BestIntentLastWins(i + 1, text, current_phase,
                                   [intent |-> pattern.name, score |-> score])
           ELSE BestIntentLastWins(i + 1, text, current_phase, best)

\* the loop over INTENT_PATTERNS keeping the first strictly best score
RECURSIVE BestIntent(_, _, _, _)
BestIntent(i, text, current_phase, best) ==
  IF i > Len(INTENT_PATTERNS) THEN best
  ELSE LET pattern == INTENT_PATTERNS[i]
           phases == Range(pattern.phase_compatibility)
           score == CountHits(pattern.keywords \o pattern.triggers, 1, text)
       IN  IF "*" \notin phases /\ current_phase \notin phases
           THEN BestIntent(i + 1, text, current_phase, best)
           ELSE IF score > best.score
           THEN BestIntent(i + 1, text, current_phase,
                           [intent |-> pattern.name, score |-> score])
           ELSE BestIntent(i + 1, text, current_phase, best)

Min(a, b) == IF a < b THEN a ELSE b

\* confidence is kept in hundredths
UnknownIntent ==
  [primary_intent |-> "unknown", requires_agents |-> << >>, confidence |-> 0]

analyze_rule_based(user_input, current_phase) ==
  LET text == Strip(Lower(user_input))
      best == BestIntent(1, text, current_phase, [intent |-> None, score |-> 0])
  IN  IF text = << >> THEN UnknownIntent
      ELSE IF best.intent = None THEN UnknownIntent
      ELSE [primary_intent |-> best.intent,
            requires_agents |-> INTENT_TO_AGENTS(best.intent),
            confidence |-> Min(100, 30 + 20 * best.score)]

(***************************************************************************)
(* State                                                                   *)
(***************************************************************************)
VARIABLES
  \* one call of ExecutionPlanner.plan
  p_pc,          \* "start" before the call, "done" after it, "off" when unused
  p_intent,      \* the IntentResult passed in
  p_has,         \* which artifact fields of project_state are non-empty
  p_phase,       \* project_state.current_phase
  p_upstream,    \* the list after _resolve_upstream
  p_resolved,    \* the list after _resolve_downstream
  p_plan,        \* the ExecutionPlan's tasks
  \* the orchestrator, its StateManager and the persistence backend
  db,            \* backend record of the session, NoRecord when there is none
  cache,         \* StateManager.cache[session_id], NoRecord when not cached
  llm,           \* whether IntentClassifier._structured_llm is set
  pc,            \* position of process_request
  turns,         \* requests started so far
  opts,          \* the selection mode the request was made with
  user_input,    \* the utterance of the request
  error,         \* the graph state's "error"
  project_state, \* TRUE when the local project_state is the cached object
  llm_reply,     \* how the structured LLM answered the classifier
  intent,        \* the graph state's "intent"
  the_plan,      \* the tasks of the graph state's "plan"
  idx,           \* index of the task the loop is at
  results,       \* the list results of process_request
  response,      \* what process_request returned
  \* history of the request, for stating properties
  pre,           \* db and cache when the request started
  loaded,        \* the record load() returned
  processed,     \* requests that returned a response other than the error one
  outcomes,      \* per task reached by the loop: what happened to it
  \* one call of BaseAgent.execute
  e_pc,          \* "loop" at the loop test, "returned", "raised", "off"
  e_config,      \* the reviewer's min_score and the agent's quality criteria
  e_input,       \* the local input
  e_attempt,     \* the local attempt
  e_calls,       \* calls of _generate made so far
  e_raw,         \* the local raw_output
  e_review,      \* the last ReviewResult
  e_output,      \* the AgentOutput returned
  \* one call of the rule-based classifier
  c_pc,          \* "start", "done", "off"
  c_input,       \* the argument user_input
  c_phase,       \* the argument current_phase
  c_result,      \* the IntentResult returned
  \* requests on one session that overlap, on one StateManager
  r_pc,          \* per request: where it is
  r_sid,         \* per request: the session id it was made with
  r_answered,    \* per request: whether its agent returned a result
  r_state,       \* per request: the object its project_state refers to, 0 for none
  r_heap,        \* the ProjectState objects, by the request that created them
  r_cache,       \* per cache key: the object cached, 0 for none
  r_db,          \* per session: the record the backend holds
  r_dump,        \* per request: the model_dump passed to the pending db.save
  \* calls of one StateManager for one session, one after another
  m_pc,          \* "ready" between calls, "off" when unused
  m_cache,       \* StateManager.cache[session_id], not present when absent
  m_db,          \* the model_dump the backend holds, not present when none
  m_clock,       \* what datetime.utcnow() returns next
  m_ops,         \* calls made so far
  m_last,        \* the last call: its arguments, what it found and returned
  \* one call of ProjectArchitectAgent._generate_mermaid_diagram
  d_pc,          \* "start", "loop" at the loop test, "returned", "off"
  d_kind,        \* the argument diagram_kind
  d_client,      \* whether self.llm_client is set
  d_attempt,     \* the loop variable attempt, max_diagram_attempts after the loop
  d_last_parse_error, \* the local last_parse_error
  d_log,         \* per LLM call: the error its prompt carried and how it ended
  d_result,      \* what was returned: "llm", a template, or None before that
  \* one call of ExecutionPlanner.plan, statement by statement
  s_pc,          \* "upstream", "while", "for", "done", "off" when unused
  s_agent_ids,   \* the local agent_ids of plan
  s_has,         \* which artifact fields of project_state are non-empty
  s_ctx,         \* who called _resolve_upstream: "plan" or "pass"
  s_ids,         \* the argument agent_ids of the running _resolve_upstream
  s_k,           \* index of the next id of its loop "for aid in agent_ids"
  s_stack,       \* the frames of add_with_deps, the running one last
  s_seen,        \* the local seen of _resolve_upstream
  s_result,      \* the local result of _resolve_upstream
  s_dseen,       \* the local seen of _resolve_downstream
  s_dresult,     \* the local result of _resolve_downstream
  s_changed,     \* the local changed
  s_produced,    \* the local produced
  s_i,           \* index of the next entry of "for entry in AGENT_STORE"
  s_passes,      \* passes of the while loop entered so far
  s_at_pass,     \* len(result) when the running or last pass was entered
  s_plan         \* the tasks of the plan returned

plan_vars == << p_pc, p_intent, p_has, p_phase, p_upstream, p_resolved, p_plan >>

store_vars == << db, cache >>

request_vars ==
  << llm, pc, turns, opts, user_input, error, project_state, llm_reply, intent,
     the_plan, idx, results, response, pre, loaded, processed, outcomes >>

exec_vars ==
  << e_pc, e_config, e_input, e_attempt, e_calls, e_raw, e_review, e_output >>

classify_vars == << c_pc, c_input, c_phase, c_result >>

race_vars ==
  << r_pc, r_sid, r_state, r_heap, r_cache, r_db, r_dump, r_answered >>

manager_vars == << m_pc, m_cache, m_db, m_clock, m_ops, m_last >>

diagram_vars ==
  << d_pc, d_kind, d_client, d_attempt, d_last_parse_error, d_log, d_result >>

steps_vars ==
  << s_pc, s_agent_ids, s_has, s_ctx, s_ids, s_k, s_stack, s_seen, s_result,
     s_dseen, s_dresult, s_changed, s_produced, s_i, s_passes, s_at_pass, s_plan >>

vars ==
  << plan_vars, store_vars, request_vars, exec_vars, classify_vars, race_vars,
     manager_vars, diagram_vars, steps_vars >>

\* what a step of a request leaves alone
outside_request ==
  << plan_vars, exec_vars, classify_vars, race_vars, manager_vars, diagram_vars,
     steps_vars >>

(***************************************************************************)
(* Session records  (state/project_state.py, state/state_manager.py)       *)
(* A record keeps current_phase, the emptiness of each artifact field      *)
(* (has) and conversation_history.                                         *)
(***************************************************************************)
NoRecord ==
  [current_phase |-> None, has |-> [a \in ArtifactFields |-> FALSE],
   conversation_history |-> << >>]

\* ProjectState(session_id=session_id)
DefaultState ==
  [current_phase |-> "initialization", has |-> [a \in ArtifactFields |-> FALSE],
   conversation_history |-> << >>]

\* _merged_value on the fields a state delta of the orchestrator names:
\* a nested model is replaced field by field by a delta carrying every
\* field, a list is extended, a scalar is replaced
merged_value(state, key, value) ==
  CASE key \in ArtifactFields ->
         [state EXCEPT !.has = [state.has EXCEPT ![key] = value]]
    [] key = "conversation_history" ->
         [state EXCEPT !.conversation_history = state.conversation_history \o value]
    [] key = "current_phase" ->
         [state EXCEPT !.current_phase = value]
    [] OTHER -> state

\* the loop "for key, value in delta.items()" of update; delta is a
\* sequence of << key, value >> pairs
RECURSIVE apply_delta(_, _, _)
apply_delta(state, delta, k) ==
  IF k > Len(delta) THEN state
  ELSE apply_delta(merged_value(state, delta[k][1], delta[k][2]), delta, k + 1)

(***************************************************************************)
(* MasterOrchestrator  (orchestrator/master_agent.py, orchestrator/graph.py)*)
(***************************************************************************)
PHASE_TRANSITION_MAP(agent_id) ==
  CASE agent_id = "requirements_collector" -> "requirements_complete"
    [] agent_id = "project_architect" -> "architecture_complete"
    [] agent_id = "execution_planner" -> "planning_complete"
    [] agent_id = "mockup_agent" -> "design_complete"
    [] agent_id = "exporter" -> "exportable"
    [] OTHER -> None

\* the agent ids _run_agent has an adapter branch for that calls the agent
WiredAgents == {"requirements_collector", "project_architect"}

\* the utterances requests are made with
Utterances ==
  { << >>,
    << "I", "want", "to", "build", "a", "task", "app" >>,
    << "generate", "architecture" >> }

\* str(e) of the exception load() may raise
ExceptionMessages == {"", "backend unavailable"}

\* Python truthiness of the graph state's "error"
Truthy(e) == e # None /\ e # ""

NoIntent ==
  [primary_intent |-> None, requires_agents |-> << >>, confidence |-> 0]

NoResponse ==
  [kind |-> None, message |-> << >>, state_snapshot |-> NoRecord,
   artifacts |-> << >>]

\* process_request(user_input, session_id): the selection is automatic
AutoOpts == [mode |-> "auto", selected |-> None]

\* what the structured LLM may return as an IntentResultModel
LLMLabels == {"unknown", "mockup_creation"}

\* the agent ids it may name: one of the registry, one unknown to it
LLMAgentIds == {"project_architect", GhostId}

LLMResults ==
  [primary_intent : LLMLabels,
   requires_agents : SeqsUpTo(LLMAgentIds, MaxLLMAgents),
   confidence : {90}]

\* how the call of the structured LLM ends: it is not configured ("none"),
\* it returns an IntentResultModel ("result"), it raises, a timeout of the
\* client included ("raised"), or it returns something else ("malformed")
LLMReplies == IF llm THEN {"result", "raised", "malformed"} ELSE {"none"}

\* on a failure of the LLM the classifier answers "unknown"
analyze_async_unknown_on_failure(u, current_phase, reply) ==
  IF reply = "result" THEN LLMResults
  ELSE IF reply = "none" THEN {analyze_rule_based(u, current_phase)}
  ELSE {UnknownIntent}

\* analyze_async: the LLM's result when it returned a well-formed one, the
\* rule-based result otherwise ("except Exception: pass", then line 173)
analyze_async(u, current_phase, reply) ==
  IF reply = "result" THEN LLMResults
  ELSE {analyze_rule_based(u, current_phase)}

\* the text an agent may return, "" when it returns none
ContentOf(agent_id) ==
  CASE agent_id = "requirements_collector" -> "requirements reply"
    [] agent_id = "project_architect" -> "architecture summary"
    [] OTHER -> ""

RECURSIVE NonEmptyContents(_, _)
NonEmptyContents(rs, k) ==
  IF k > Len(rs) THEN << >>
  ELSE (IF rs[k].content # "" THEN << rs[k].content >> ELSE << >>)
       \o NonEmptyContents(rs, k + 1)

\* the message is kept as the list of the parts joined
synthesize_response(rs) ==
  IF rs = << >> THEN << "No agents ran." >>
  ELSE IF NonEmptyContents(rs, 1) = << >> THEN << "Done." >>
  ELSE NonEmptyContents(rs, 1)

RequestIdle ==
  /\ db = NoRecord
  /\ cache = NoRecord
  /\ llm = FALSE
  /\ pc = "idle"
  /\ turns = 0
  /\ opts = AutoOpts
  /\ user_input = << >>
  /\ error = None
  /\ project_state = FALSE
  /\ llm_reply = "none"
  /\ intent = NoIntent
  /\ the_plan = << >>
  /\ idx = 0
  /\ results = << >>
  /\ response = NoResponse
  /\ pre = [db |-> NoRecord, cache |-> NoRecord]
  /\ loaded = NoRecord
  /\ processed = 0
  /\ outcomes = << >>

\* a new session: nothing persisted, nothing cached
RequestInit ==
  /\ db = NoRecord
  /\ cache = NoRecord
  /\ llm \in BOOLEAN
  /\ pc = "idle"
  /\ turns = 0
  /\ opts = AutoOpts
  /\ user_input = << >>
  /\ error = None
  /\ project_state = FALSE
  /\ llm_reply = "none"
  /\ intent = NoIntent
  /\ the_plan = << >>
  /\ idx = 0
  /\ results = << >>
  /\ response = NoResponse
  /\ pre = [db |-> NoRecord, cache |-> NoRecord]
  /\ loaded = NoRecord
  /\ processed = 0
  /\ outcomes = << >>

\* no request is running: none was made yet, the last one returned, or
\* an exception left it
BetweenRequests == {"idle", "done", "raised"}

\* process_request is called
StartRequest ==
  /\ pc \in BetweenRequests
  /\ turns < MaxTurns
  /\ \E u \in Utterances : user_input' = u
  /\ turns' = turns + 1
  /\ opts' = AutoOpts
  /\ pc' = "load_state"
  /\ error' = None
  /\ project_state' = FALSE
  /\ llm_reply' = "none"
  /\ intent' = NoIntent
  /\ the_plan' = << >>
  /\ idx' = 0
  /\ results' = << >>
  /\ response' = NoResponse
  /\ pre' = [db |-> db, cache |-> cache]
  /\ loaded' = NoRecord
  /\ outcomes' = << >>
  /\ UNCHANGED << db, cache, llm, processed >>
  /\ UNCHANGED outside_request

\* process_request is called with a selection mode and a selected agent id:
\* its signature takes user_input and session_id only, and the call raises
\* TypeError before the body runs
ManualRequestRejected ==
  /\ pc \in BetweenRequests
  /\ turns < MaxTurns
  /\ \E u \in Utterances : user_input' = u
  /\ \E aid \in RegistryIds : opts' = [mode |-> "manual", selected |-> aid]
  /\ turns' = turns + 1
  /\ pc' = "raised"
  /\ error' = None
  /\ project_state' = FALSE
  /\ llm_reply' = "none"
  /\ intent' = NoIntent
  /\ the_plan' = << >>
  /\ idx' = 0
  /\ results' = << >>
  /\ response' = NoResponse
  /\ pre' = [db |-> db, cache |-> cache]
  /\ loaded' = NoRecord
  /\ outcomes' = << >>
  /\ UNCHANGED << db, cache, llm, processed >>
  /\ UNCHANGED outside_request

\* a new StateManager and orchestrator over the same backend: what was
\* cached and not saved is gone
Restart ==
  /\ pc \in BetweenRequests
  /\ cache # NoRecord
  /\ cache' = NoRecord
  /\ pc' = "idle"
  /\ UNCHANGED << db, llm, opts, turns, user_input, error, project_state,
                  llm_reply, intent, the_plan, idx, results, response, pre, processed,
                  loaded, outcomes >>
  /\ UNCHANGED outside_request

\* load_state_node: StateManager.load found the session in its cache
LoadStateCached ==
  /\ pc = "load_state"
  /\ cache # NoRecord
  /\ project_state' = TRUE
  /\ loaded' = cache
  /\ error' = None
  /\ pc' = "classify_intent"
  /\ UNCHANGED << db, cache, llm, opts, turns, user_input, llm_reply, intent, the_plan, idx,
                  results, response, pre, processed, outcomes >>
  /\ UNCHANGED outside_request

\* load_state_node: cache miss, the backend record or a default is cached
LoadStateFromBackend ==
  /\ pc = "load_state"
  /\ cache = NoRecord
  /\ cache' = IF db # NoRecord THEN db ELSE DefaultState
  /\ project_state' = TRUE
  /\ loaded' = cache'
  /\ error' = None
  /\ pc' = "classify_intent"
  /\ UNCHANGED << db, llm, opts, turns, user_input, llm_reply, intent, the_plan, idx,
                  results, response, pre, processed, outcomes >>
  /\ UNCHANGED outside_request

\* load_state_node: cache miss and db.get or ProjectState(**state_dict) raises
LoadStateFails ==
  /\ pc = "load_state"
  /\ cache = NoRecord
  /\ \E msg \in ExceptionMessages : error' = msg
  /\ project_state' = FALSE
  /\ pc' = "classify_intent"
  /\ UNCHANGED << db, cache, llm, opts, turns, user_input, llm_reply, intent, the_plan, idx,
                  results, response, pre, processed, loaded, outcomes >>
  /\ UNCHANGED outside_request

\* classify_intent_node
ClassifyIntent ==
  /\ pc = "classify_intent"
  /\ IF Truthy(error) THEN intent' = intent /\ llm_reply' = llm_reply
     ELSE LET current_phase == IF project_state THEN cache.current_phase
                               ELSE "initialization"
          IN  \E reply \in LLMReplies :
                /\ llm_reply' = reply
                /\ \E r \in analyze_async(Strip(user_input), current_phase, reply) :
                     intent' = r
  /\ pc' = "build_plan"
  /\ UNCHANGED << db, cache, llm, opts, turns, user_input, error, project_state,
                  the_plan, idx, results, response, pre, processed, loaded, outcomes >>
  /\ UNCHANGED outside_request

\* the plan build_plan_node leaves in the graph state
BuiltPlan ==
  IF Truthy(error) THEN << >>
  ELSE IF intent = NoIntent \/ ~project_state THEN << >>
  ELSE plan(intent, cache.has, cache.current_phase)

\* build_plan_node, then process_request up to the task loop (lines 62-84)
BuildPlan ==
  /\ pc = "build_plan"
  /\ the_plan' = BuiltPlan
  /\ IF Truthy(error)
     THEN /\ response' = [kind |-> "error", message |-> << "Error: ", error >>,
                          state_snapshot |-> NoRecord, artifacts |-> << >>]
          /\ pc' = "done"
          /\ idx' = idx
          /\ processed' = processed
     ELSE IF BuiltPlan = << >> \/ ~project_state
     THEN /\ response' = [kind |-> "no_plan", message |-> << "No plan or state." >>,
                          state_snapshot |-> IF project_state THEN cache ELSE NoRecord,
                          artifacts |-> << >>]
          /\ pc' = "done"
          /\ idx' = idx
          /\ processed' = processed + 1
     ELSE /\ response' = response
          /\ pc' = "execute"
          /\ idx' = 1
          /\ processed' = processed
  /\ UNCHANGED << db, cache, llm, opts, turns, user_input, error, project_state,
                  llm_reply, intent, results, pre, loaded, outcomes >>
  /\ UNCHANGED outside_request

\* the task the loop is at
Task == the_plan[idx]

AtTask == pc = "execute" /\ idx <= Len(the_plan)

\* the fields of ProjectState, the keys of a full snapshot
StateFields ==
  {"session_id", "project_name", "created_at", "updated_at", "current_phase",
   "requirements", "architecture", "mockups", "roadmap",
   "conversation_history", "agent_interactions"}

\* _extract_context, by the keys of the dict it returns: the full snapshot
\* for an empty list or one holding "*", one key per listed name otherwise
extract_context(required_context) ==
  IF required_context = << >> \/ "*" \in Range(required_context)
  THEN StateFields
  ELSE Range(required_context)

\* the context is extracted from the record the request loaded, whatever
\* the tasks before have merged
ContextSource_loaded == loaded

\* line 89: the context is extracted from the local project_state, which is
\* the cached object: update changes it in place and returns it
ContextSource == cache

\* what the loop did with the task it is at; context holds the keys of the
\* context _run_agent was called with, none when it was not called; source
\* is the record the context was extracted from; merged holds the deltas
\* that were merged for the task; before and after are the session record
\* when the loop reached the task and when it left it
Outcome(status) ==
  [agent_id |-> Task.agent_id, status |-> status,
   context |-> IF status = "skipped" THEN {}
               ELSE extract_context(Task.required_context),
   source |-> IF status = "skipped" THEN NoRecord ELSE ContextSource,
   merged |-> << >>,
   before |-> cache,
   after |-> cache']

\* the loop goes on to the next task that is compatible with the phase the
\* session is in by now
Advance_refiltering ==
  /\ LET last == Len(the_plan) + 1
         ok(j) == \/ j = last
                  \/ phase_compatible(get_agent_by_id(the_plan[j].agent_id),
                                      cache'.current_phase)
     IN  idx' = CHOOSE j \in (idx + 1)..last :
                  ok(j) /\ \A i \in (idx + 1)..(j - 1) : ~ok(i)
  /\ pc' = "execute"

\* line 85: "for task in plan.tasks" takes the next task of the plan that
\* was built before the loop
Advance ==
  /\ idx' = idx + 1
  /\ pc' = "execute"

\* the loop goes on to the next task
Continue(status) ==
  /\ outcomes' = Append(outcomes, Outcome(status))
  /\ Advance

\* lines 86-88: the registry has no agent for the task
TaskSkipped ==
  /\ AtTask
  /\ UNCHANGED << db, cache, llm, opts, turns, user_input, error, project_state,
                  llm_reply, intent, the_plan, results, response, pre, processed, loaded >>
  /\ Continue("skipped")
  /\ UNCHANGED outside_request

\* a placeholder branch returns nothing, and the phase transition of the
\* task is made all the same
TaskNotWiredTransitions ==
  /\ AtTask
  /\ Task.agent_id \notin WiredAgents
  /\ cache' = [cache EXCEPT !.current_phase = PHASE_TRANSITION_MAP(Task.agent_id)]
  /\ db' = cache'
  /\ UNCHANGED << llm, opts, turns, user_input, error, project_state,
                  llm_reply, intent, the_plan, results, response, pre, processed, loaded >>
  /\ Continue("no_result")
  /\ UNCHANGED outside_request

\* _run_agent for an id whose adapter branch is a placeholder: None is
\* returned and the agent is not called
TaskNotWired ==
  /\ AtTask
  /\ Task.agent_id \notin WiredAgents
  /\ UNCHANGED << db, cache, llm, opts, turns, user_input, error, project_state,
                  llm_reply, intent, the_plan, results, response, pre, processed, loaded >>
  /\ Continue("no_result")
  /\ UNCHANGED outside_request

\* the exception of the agent leaves the loop: the request ends at the
\* failing task with nothing synthesized and nothing saved
TaskRaisesAborts ==
  /\ AtTask
  /\ Task.agent_id \in WiredAgents
  /\ UNCHANGED << db, cache, llm, opts, turns, user_input, error, project_state,
                  llm_reply, intent, the_plan, results, response, pre, processed, loaded >>
  /\ outcomes' = Append(outcomes, Outcome("error"))
  /\ idx' = idx
  /\ pc' = "done"
  /\ UNCHANGED outside_request

\* _run_agent: the agent is called and raises; "except Exception" returns
\* None and the loop continues
TaskRaises ==
  /\ AtTask
  /\ Task.agent_id \in WiredAgents
  /\ UNCHANGED << db, cache, llm, opts, turns, user_input, error, project_state,
                  llm_reply, intent, the_plan, results, response, pre, processed, loaded >>
  /\ Continue("error")
  /\ UNCHANGED outside_request

\* the state delta _run_agent builds from what the agent returned: none,
\* or the agent's artifact, populated or with every field empty
StateDeltas(agent_id) ==
  CASE agent_id = "requirements_collector" ->
         { << >> } \cup { << << "requirements", b >> >> : b \in BOOLEAN }
    [] agent_id = "project_architect" ->
         { << >> } \cup { << << "architecture", b >> >> : b \in BOOLEAN }
    [] OTHER -> { << >> }

\* the transition is taken only when no earlier task of the request took one
phase_delta_first_wins(agent_id) ==
  IF PHASE_TRANSITION_MAP(agent_id) = None THEN << >>
  ELSE IF \E i \in 1..Len(outcomes) : outcomes[i].status = "success" THEN << >>
  ELSE << << "current_phase", PHASE_TRANSITION_MAP(agent_id) >> >>

\* lines 97-99: the delta of the phase transition of the task
phase_delta(agent_id) ==
  IF PHASE_TRANSITION_MAP(agent_id) = None THEN << >>
  ELSE << << "current_phase", PHASE_TRANSITION_MAP(agent_id) >> >>

\* StateManager.update(session_id, delta): load, apply, save, cache
update(state, delta) == apply_delta(state, delta, 1)

\* lines 89-100: the agent returned a result; its state delta is merged,
\* then the phase transition, each through StateManager.update
TaskSucceeds ==
  /\ AtTask
  /\ Task.agent_id \in WiredAgents
  /\ \E state_delta \in StateDeltas(Task.agent_id), content \in {"", ContentOf(Task.agent_id)} :
       LET after_delta == IF state_delta # << >> THEN update(cache, state_delta) ELSE cache
           after_phase == IF phase_delta(Task.agent_id) # << >>
                          THEN update(after_delta, phase_delta(Task.agent_id))
                          ELSE after_delta
       IN  /\ cache' = after_phase
           /\ db' = IF state_delta # << >> \/ phase_delta(Task.agent_id) # << >>
                    THEN after_phase ELSE db
           /\ results' = Append(results, [agent_id |-> Task.agent_id, content |-> content])
           /\ outcomes' = Append(outcomes,
                [Outcome("success") EXCEPT
                   !.merged = state_delta \o phase_delta(Task.agent_id)])
  /\ Advance
  /\ UNCHANGED << llm, opts, turns, user_input, error, project_state, llm_reply, intent,
                  the_plan, response, pre, processed, loaded >>
  /\ UNCHANGED outside_request

\* line 86: registry.get_agent raises while it builds the agent (the
\* constructor of the agent or of its LLM client); the call is outside any
\* handler and the exception leaves process_request
TaskResolutionRaises ==
  /\ AtTask
  /\ Task.agent_id \in WiredAgents
  /\ pc' = "raised"
  /\ UNCHANGED << db, cache, llm, opts, turns, user_input, error, project_state,
                  llm_reply, intent, the_plan, idx, results, response, pre, processed,
                  loaded, outcomes >>
  /\ UNCHANGED outside_request

\* lines 93-99: db.save raises inside StateManager.update, in the update of
\* the state delta or in the update of the phase. The cached object was
\* changed in place before the save; the exception leaves process_request
TaskUpdateRaises ==
  /\ AtTask
  /\ Task.agent_id \in WiredAgents
  /\ \E state_delta \in StateDeltas(Task.agent_id), in_phase_update \in BOOLEAN :
       LET after_delta == IF state_delta # << >> THEN update(cache, state_delta) ELSE cache
           after_phase == update(after_delta, phase_delta(Task.agent_id))
       IN  /\ in_phase_update => phase_delta(Task.agent_id) # << >>
           /\ ~in_phase_update => state_delta # << >>
           /\ cache' = IF in_phase_update THEN after_phase ELSE after_delta
           /\ db' = IF in_phase_update /\ state_delta # << >> THEN after_delta ELSE db
  /\ pc' = "raised"
  /\ UNCHANGED << llm, opts, turns, user_input, error, project_state, llm_reply, intent,
                  the_plan, idx, results, response, pre, processed, loaded,
                  outcomes >>
  /\ UNCHANGED outside_request

\* lines 105-107: the two entries of the turn. The content of an entry is
\* represented by the number of the request that wrote it: it stands for
\* that request's utterance in a user entry and for its synthesized
\* message in an assistant entry.
TurnEntries(message) ==
  << [role |-> "user", content |-> turns],
     [role |-> "assistant", content |-> turns] >>

\* the new history goes through StateManager's merge, which extends the
\* list the field holds by the list it is given
set_history_extending(state, entries) ==
  merged_value(state, "conversation_history",
               state.conversation_history \o entries)

\* lines 105-108: new_history is the old list and the entries of the turn,
\* and is set on the field directly
set_history(state, entries) ==
  [state EXCEPT !.conversation_history = state.conversation_history \o entries]

\* the field is set to the entries of the turn alone
history_set_turn_only(state, message) ==
  [state EXCEPT !.conversation_history = TurnEntries(message)]

history_set(state, message) == set_history(state, TurnEntries(message))

\* lines 101-118: synthesize the message, append the turn, save, cache, return
SynthesizeAndPersist ==
  /\ pc = "execute"
  /\ idx > Len(the_plan)
  /\ LET message == synthesize_response(results)
         final == history_set(cache, message)
     IN  /\ cache' = final
         /\ db' = final
         /\ response' = [kind |-> "ok", message |-> message,
                          state_snapshot |-> final, artifacts |-> results]
  /\ pc' = "done"
  /\ processed' = processed + 1
  /\ UNCHANGED << llm, opts, turns, user_input, error, project_state, llm_reply, intent,
                  the_plan, idx, results, pre, loaded, outcomes >>
  /\ UNCHANGED outside_request

\* line 109: db.save raises after the history was set on the cached
\* object; the exception leaves process_request
PersistRaises ==
  /\ pc = "execute"
  /\ idx > Len(the_plan)
  /\ cache' = history_set(cache, synthesize_response(results))
  /\ pc' = "raised"
  /\ UNCHANGED << db, llm, opts, turns, user_input, error, project_state, llm_reply, intent,
                  the_plan, idx, results, response, pre, processed, loaded,
                  outcomes >>
  /\ UNCHANGED outside_request

RequestNext ==
  \/ StartRequest
  \/ ManualRequestRejected
  \/ Restart
  \/ LoadStateCached
  \/ LoadStateFromBackend
  \/ LoadStateFails
  \/ ClassifyIntent
  \/ BuildPlan
  \/ TaskSkipped
  \/ TaskNotWired
  \/ TaskRaises
  \/ TaskSucceeds
  \/ TaskResolutionRaises
  \/ TaskUpdateRaises
  \/ SynthesizeAndPersist
  \/ PersistRaises

(***************************************************************************)
(* Review protocol  (protocols/review_protocol.py)                         *)
(* Scores are kept in tenths, weights and min_score in hundredths.         *)
(***************************************************************************)
\* what _generate may return, by the features the validators look at
NoOutput == [type |-> None, empty |-> FALSE, state_delta |-> "absent", metadata |-> "absent"]

Outputs ==
  { [type |-> "none", empty |-> FALSE, state_delta |-> "absent", metadata |-> "absent"],
    [type |-> "str",  empty |-> TRUE,  state_delta |-> "absent", metadata |-> "absent"],
    [type |-> "str",  empty |-> FALSE, state_delta |-> "absent", metadata |-> "absent"],
    [type |-> "dict", empty |-> TRUE,  state_delta |-> "absent", metadata |-> "absent"],
    [type |-> "dict", empty |-> FALSE, state_delta |-> "null",   metadata |-> "null"],
    [type |-> "dict", empty |-> FALSE, state_delta |-> "dict",   metadata |-> "absent"],
    [type |-> "dict", empty |-> FALSE, state_delta |-> "absent", metadata |-> "dict"] }

FeasibilityIssues(output) ==
  IF output.type = "none" THEN << "Output is missing" >>
  ELSE IF output.type = "str" /\ output.empty THEN << "Output text is empty" >>
  ELSE IF output.type \in {"dict", "list"} /\ output.empty THEN << "Output payload is empty" >>
  ELSE << >>

ClarityIssues(output) ==
  (IF output.type = "str" /\ output.empty THEN << "Output text is blank" >> ELSE << >>)
  \o (IF output.type = "dict" /\ output.empty THEN << "Output object has no keys" >> ELSE << >>)

CompletenessIssues(output) ==
  IF output.type = "dict"
  THEN (IF output.state_delta = "null" THEN << "state_delta cannot be None" >> ELSE << >>)
       \o (IF output.metadata = "null" THEN << "metadata cannot be None" >> ELSE << >>)
  ELSE << >>

ConsistencyIssues(output) == << >>

\* self.validators, in order
Validators == << "feasibility", "clarity", "completeness", "consistency" >>

IssuesOf(validator, output) ==
  CASE validator = "feasibility" -> FeasibilityIssues(output)
    [] validator = "clarity" -> ClarityIssues(output)
    [] validator = "completeness" -> CompletenessIssues(output)
    [] validator = "consistency" -> ConsistencyIssues(output)

Max(a, b) == IF a > b THEN a ELSE b

\* max(0.0, 1.0 - 0.2 * len(issues)); the consistency validator returns 1.0
ScoreOf(validator, output) == Max(0, 10 - 2 * Len(IssuesOf(validator, output)))

RECURSIVE Feedback(_, _)
Feedback(i, output) ==
  IF i > Len(Validators) THEN << >>
  ELSE IssuesOf(Validators[i], output) \o Feedback(i + 1, output)

\* a criteria map gives a weight to a dimension or, with -1, leaves it out
Absent == -1

\* 1.0 / max(1, len(scores))
default_weight == 100 \div Len(Validators)

WeightOf(criteria, dimension) ==
  IF criteria[dimension] = Absent THEN default_weight ELSE criteria[dimension]

RECURSIVE WeightedTotal(_, _, _)
WeightedTotal(i, output, criteria) ==
  IF i > Len(Validators) THEN 0
  ELSE ScoreOf(Validators[i], output) * WeightOf(criteria, Validators[i])
       + WeightedTotal(i + 1, output, criteria)

RECURSIVE TotalWeight(_, _)
TotalWeight(i, criteria) ==
  IF i > Len(Validators) THEN 0
  ELSE WeightOf(criteria, Validators[i]) + TotalWeight(i + 1, criteria)

\* total_score >= min_score, with total_score = weighted_total / total_weight
\* and 0.0 when total_weight is 0
MeetsMinScore(output, config) ==
  IF TotalWeight(1, config.criteria) = 0 THEN 0 >= config.min_score
  ELSE 10 * WeightedTotal(1, output, config.criteria)
         >= config.min_score * TotalWeight(1, config.criteria)

\* an output is valid as soon as its score meets the minimum
validate_score_only(output, config) ==
  [is_valid |-> MeetsMinScore(output, config),
   feedback |-> Feedback(1, output)]

validate(output, config) ==
  [is_valid |-> MeetsMinScore(output, config) /\ Feedback(1, output) = << >>,
   feedback |-> Feedback(1, output)]

NoReview == [is_valid |-> FALSE, feedback |-> << >>]

(***************************************************************************)
(* BaseAgent.execute  (agents/base_agent.py)                               *)
(***************************************************************************)
max_attempts == 3

\* the reviewer's min_score (0.75 unless configured) and the criteria of
\* the agent
ReviewConfigs ==
  [min_score : {75, 100},
   criteria : { [d \in Range(Validators) |-> Absent],
                [d \in Range(Validators) |-> 0],
                [d \in Range(Validators) |->
                   IF d = "feasibility" THEN 40 ELSE IF d = "clarity" THEN 60 ELSE Absent] }]

\* the input of execute: a dict or a text. A dict correction carries the
\* failed output and the feedback under two keys; a text correction appends
\* the joined feedback to the text.
InitialInputs ==
  { [type |-> t, previous_output |-> NoOutput, review_feedback |-> << >>,
     appended |-> << >>] : t \in {"dict", "str"} }

build_correction_prompt(original_input, failed_output, review_feedback) ==
  IF original_input.type = "dict"
  THEN [original_input EXCEPT !.previous_output = failed_output,
                              !.review_feedback = review_feedback]
  ELSE [original_input EXCEPT !.appended =
          Append(@, IF review_feedback # << >> THEN review_feedback
                    ELSE << "Unknown issue" >>)]

extract_state_delta(raw_output) ==
  IF raw_output.type = "dict" /\ raw_output.state_delta = "dict" THEN "dict" ELSE "empty"

NoAgentOutput ==
  [content |-> NoOutput, state_delta |-> "empty", status |-> None,
   attempts |-> 0, review_failures |-> 0]

ExecIdle ==
  /\ e_pc = "off"
  /\ e_config = [min_score |-> 75, criteria |-> [d \in Range(Validators) |-> Absent]]
  /\ e_input = [type |-> "dict", previous_output |-> NoOutput,
                review_feedback |-> << >>, appended |-> << >>]
  /\ e_attempt = 0
  /\ e_calls = 0
  /\ e_raw = NoOutput
  /\ e_review = NoReview
  /\ e_output = NoAgentOutput

\* execute is entered; raw_output = {} is represented by NoOutput
ExecInit ==
  /\ e_pc = "loop"
  /\ e_config \in ReviewConfigs
  /\ e_input \in InitialInputs
  /\ e_attempt = 0
  /\ e_calls = 0
  /\ e_raw = NoOutput
  /\ e_review = NoReview
  /\ e_output = NoAgentOutput

outside_exec ==
  << plan_vars, store_vars, request_vars, classify_vars, race_vars, manager_vars,
     diagram_vars, steps_vars >>

\* the loop runs on although max_attempts attempts were made
LoopGuardUnbounded == e_attempt < max_attempts + 1

\* line 50: while attempt < max_attempts
LoopGuard == e_attempt < max_attempts

\* lines 51-63: the generated output passes review and is returned
AttemptValid ==
  /\ e_pc = "loop"
  /\ LoopGuard
  /\ \E out \in Outputs :
       /\ validate(out, e_config).is_valid
       /\ e_raw' = out
       /\ e_review' = validate(out, e_config)
       /\ e_output' = [content |-> out, state_delta |-> extract_state_delta(out),
                       status |-> None, attempts |-> e_attempt + 1,
                       review_failures |-> 0]
  /\ e_calls' = e_calls + 1
  /\ e_pc' = "returned"
  /\ UNCHANGED << e_config, e_input, e_attempt >>
  /\ UNCHANGED outside_exec

\* lines 51-70: the generated output fails review; the correction input is
\* built and the attempt counted
AttemptInvalid ==
  /\ e_pc = "loop"
  /\ LoopGuard
  /\ \E out \in Outputs :
       /\ ~validate(out, e_config).is_valid
       /\ e_raw' = out
       /\ e_review' = validate(out, e_config)
       /\ e_input' = build_correction_prompt(e_input, out, validate(out, e_config).feedback)
  /\ e_calls' = e_calls + 1
  /\ e_attempt' = e_attempt + 1
  /\ UNCHANGED << e_pc, e_config, e_output >>
  /\ UNCHANGED outside_exec

\* line 51: _generate raises; execute has no handler and the exception
\* leaves it
GenerateRaises ==
  /\ e_pc = "loop"
  /\ LoopGuard
  /\ e_calls' = e_calls + 1
  /\ e_pc' = "raised"
  /\ UNCHANGED << e_config, e_input, e_attempt, e_raw, e_review, e_output >>
  /\ UNCHANGED outside_exec

\* the degraded result carries the state delta of the last output
ReturnDegradedWithDelta ==
  /\ e_pc = "loop"
  /\ ~LoopGuard
  /\ e_output' = [content |-> e_raw, state_delta |-> extract_state_delta(e_raw),
                  status |-> "degraded", attempts |-> 0,
                  review_failures |-> e_attempt]
  /\ e_pc' = "returned"
  /\ UNCHANGED << e_config, e_input, e_attempt, e_calls, e_raw, e_review >>
  /\ UNCHANGED outside_exec

\* lines 72-80: the loop ended without a valid review
ReturnDegraded ==
  /\ e_pc = "loop"
  /\ ~LoopGuard
  /\ e_output' = [content |-> e_raw, state_delta |-> "empty",
                  status |-> "degraded", attempts |-> 0,
                  review_failures |-> e_attempt]
  /\ e_pc' = "returned"
  /\ UNCHANGED << e_config, e_input, e_attempt, e_calls, e_raw, e_review >>
  /\ UNCHANGED outside_exec

(***************************************************************************)
(* Specification of one planner call on arbitrary input                    *)
(***************************************************************************)
\* primary_intent enters plan() only through the test = "unknown"
PlanIntentLabels == {"unknown", "architecture_design"}

PlanIdle ==
  /\ p_pc = "off"
  /\ p_intent = [primary_intent |-> "unknown", requires_agents |-> << >>]
  /\ p_has = [a \in ArtifactFields |-> FALSE]
  /\ p_phase = "initialization"
  /\ p_upstream = << >>
  /\ p_resolved = << >>
  /\ p_plan = << >>

PlanInit ==
  /\ p_pc = "start"
  /\ p_intent \in [primary_intent : PlanIntentLabels,
                   requires_agents : SeqsUpTo(RequestIds, MaxReq)]
  /\ p_has \in [ArtifactFields -> BOOLEAN]
  /\ p_phase \in Phases
  /\ p_upstream = << >>
  /\ p_resolved = << >>
  /\ p_plan = << >>

\* ExecutionPlanner.plan(intent, project_state)
PlanCall ==
  /\ p_pc = "start"
  /\ p_upstream' = resolve_upstream(requested_or_default(p_intent), p_has)
  /\ p_resolved' = resolve_downstream(p_upstream', p_has)
  /\ p_plan' = plan(p_intent, p_has, p_phase)
  /\ p_pc' = "done"
  /\ UNCHANGED << p_intent, p_has, p_phase >>
  /\ UNCHANGED << store_vars, request_vars, exec_vars, classify_vars, race_vars,
                  manager_vars, diagram_vars, steps_vars >>

(***************************************************************************)
(* Specification of one call of the rule-based classifier                  *)
(***************************************************************************)
MaxWords == 3

\* the words utterances are made of: a blank, words that are keywords or
\* triggers of some intent, an upper-case keyword, a word that is neither
Vocabulary == {" ", "want", "architecture", "generate", "roadmap", "PDF", "hello"}

ClassifyIdle ==
  /\ c_pc = "off"
  /\ c_input = << >>
  /\ c_phase = "initialization"
  /\ c_result = NoIntent

ClassifyInit ==
  /\ c_pc = "start"
  /\ c_input \in SeqsUpTo(Vocabulary, MaxWords)
  /\ c_phase \in Phases
  /\ c_result = NoIntent

\* IntentClassifier._analyze_rule_based(user_input, current_phase)
ClassifyCall ==
  /\ c_pc = "start"
  /\ c_result' = analyze_rule_based(c_input, c_phase)
  /\ c_pc' = "done"
  /\ UNCHANGED << c_input, c_phase >>
  /\ UNCHANGED << plan_vars, store_vars, request_vars, exec_vars, race_vars,
                  manager_vars, diagram_vars, steps_vars >>

(***************************************************************************)
(* Requests that overlap  (master_agent.py, state_manager.py)              *)
(* The requests run on one event loop and one StateManager. A request is   *)
(* suspended where the code awaits: db.get, the agent, db.save (the store  *)
(* is whatever object the StateManager was constructed with). Each plan    *)
(* is the one task requirements_collector; the collector, when it answers, *)
(* returns no requirements, so that only the phase is updated.             *)
(***************************************************************************)
MaxProcs == 2

Procs == 1..MaxProcs

\* the session ids the requests are made with
Sessions == {"s1", "s2"}

\* every session is kept under one cache key
cache_key_shared(session_id) == "s1"

\* self.cache[session_id]: the key a session is cached under
cache_key(session_id) == session_id

RaceIdle ==
  /\ r_pc = [p \in Procs |-> "off"]
  /\ r_sid = [p \in Procs |-> "s1"]
  /\ r_state = [p \in Procs |-> 0]
  /\ r_heap = [p \in Procs |-> NoRecord]
  /\ r_cache = [s \in Sessions |-> 0]
  /\ r_db = [s \in Sessions |-> NoRecord]
  /\ r_dump = [p \in Procs |-> NoRecord]
  /\ r_answered = [p \in Procs |-> FALSE]

\* new sessions and no request made yet; each request has its session id
RaceInit ==
  /\ r_pc = [p \in Procs |-> "idle"]
  /\ r_sid \in [Procs -> Sessions]
  /\ r_state = [p \in Procs |-> 0]
  /\ r_heap = [p \in Procs |-> NoRecord]
  /\ r_cache = [s \in Sessions |-> 0]
  /\ r_db = [s \in Sessions |-> NoRecord]
  /\ r_dump = [p \in Procs |-> NoRecord]
  /\ r_answered = [p \in Procs |-> FALSE]

outside_race ==
  << plan_vars, store_vars, request_vars, exec_vars, classify_vars, manager_vars,
     diagram_vars, steps_vars >>

\* process_request is called and reaches StateManager.load
RaceStart(p) ==
  /\ r_pc[p] = "idle"
  /\ r_pc' = [r_pc EXCEPT ![p] = "load"]
  /\ UNCHANGED << r_sid, r_state, r_heap, r_cache, r_db, r_dump, r_answered >>
  /\ UNCHANGED outside_race

\* load, lines 19-20: the session is cached; the graph goes on to the
\* task and the agent is awaited
RaceLoadHit(p) ==
  /\ r_pc[p] = "load"
  /\ r_cache[cache_key(r_sid[p])] # 0
  /\ r_state' = [r_state EXCEPT ![p] = r_cache[cache_key(r_sid[p])]]
  /\ r_pc' = [r_pc EXCEPT ![p] = "agent"]
  /\ UNCHANGED << r_sid, r_heap, r_cache, r_db, r_dump, r_answered >>
  /\ UNCHANGED outside_race

\* load, lines 19-22: the session is not cached and db.get is awaited
RaceLoadMiss(p) ==
  /\ r_pc[p] = "load"
  /\ r_cache[cache_key(r_sid[p])] = 0
  /\ r_pc' = [r_pc EXCEPT ![p] = "get"]
  /\ UNCHANGED << r_sid, r_state, r_heap, r_cache, r_db, r_dump, r_answered >>
  /\ UNCHANGED outside_race

\* load, lines 22-25: db.get returns, a ProjectState object is built from
\* what it read and is cached, whatever the cache holds by now
RaceGetReturns(p) ==
  /\ r_pc[p] = "get"
  /\ r_heap' = [r_heap EXCEPT ![p] =
                  IF r_db[r_sid[p]] # NoRecord THEN r_db[r_sid[p]] ELSE DefaultState]
  /\ r_cache' = [r_cache EXCEPT ![cache_key(r_sid[p])] = p]
  /\ r_state' = [r_state EXCEPT ![p] = p]
  /\ r_pc' = [r_pc EXCEPT ![p] = "agent"]
  /\ UNCHANGED << r_sid, r_db, r_dump, r_answered >>
  /\ UNCHANGED outside_race

\* lines 86-92: the agent is missing, raises or returns nothing
RaceTaskNoResult(p) ==
  /\ r_pc[p] = "agent"
  /\ r_pc' = [r_pc EXCEPT ![p] = "persist"]
  /\ UNCHANGED << r_sid, r_state, r_heap, r_cache, r_db, r_dump, r_answered >>
  /\ UNCHANGED outside_race

\* lines 96-98 and update, lines 32-39: the agent answered; update loads
\* the cached object, sets the phase on it and awaits db.save of its dump
RaceTaskResult(p) ==
  /\ r_pc[p] = "agent"
  /\ LET obj == r_cache[cache_key(r_sid[p])]
         after == update(r_heap[obj], phase_delta("requirements_collector"))
     IN  /\ r_heap' = [r_heap EXCEPT ![obj] = after]
         /\ r_dump' = [r_dump EXCEPT ![p] = after]
         /\ r_state' = [r_state EXCEPT ![p] = obj]
  /\ r_answered' = [r_answered EXCEPT ![p] = TRUE]
  /\ r_pc' = [r_pc EXCEPT ![p] = "update_save"]
  /\ UNCHANGED << r_sid, r_cache, r_db >>
  /\ UNCHANGED outside_race

\* update, lines 38-40: db.save has written the dump; the object is cached
RaceUpdateSaved(p) ==
  /\ r_pc[p] = "update_save"
  /\ r_db' = [r_db EXCEPT ![r_sid[p]] = r_dump[p]]
  /\ r_cache' = [r_cache EXCEPT ![cache_key(r_sid[p])] = r_state[p]]
  /\ r_pc' = [r_pc EXCEPT ![p] = "persist"]
  /\ UNCHANGED << r_sid, r_state, r_heap, r_dump, r_answered >>
  /\ UNCHANGED outside_race

\* the two entries of the request of p
RaceEntries(p) ==
  << [role |-> "user", content |-> p], [role |-> "assistant", content |-> p] >>

\* lines 101-109: the history is set on the object of the request and
\* db.save of its dump is awaited
RacePersist(p) ==
  /\ r_pc[p] = "persist"
  /\ LET after == set_history(r_heap[r_state[p]], RaceEntries(p))
     IN  /\ r_heap' = [r_heap EXCEPT ![r_state[p]] = after]
         /\ r_dump' = [r_dump EXCEPT ![p] = after]
  /\ r_pc' = [r_pc EXCEPT ![p] = "persist_save"]
  /\ UNCHANGED << r_sid, r_state, r_cache, r_db, r_answered >>
  /\ UNCHANGED outside_race

\* lines 109-118: db.save has written the dump; the object is cached and
\* the response returned
RacePersistSaved(p) ==
  /\ r_pc[p] = "persist_save"
  /\ r_db' = [r_db EXCEPT ![r_sid[p]] = r_dump[p]]
  /\ r_cache' = [r_cache EXCEPT ![cache_key(r_sid[p])] = r_state[p]]
  /\ r_pc' = [r_pc EXCEPT ![p] = "done"]
  /\ UNCHANGED << r_sid, r_state, r_heap, r_dump, r_answered >>
  /\ UNCHANGED outside_race

(***************************************************************************)
(* StateManager on full records  (state/state_manager.py)                  *)
(* A value is a scalar, a list, a dict or a nested model, written as one   *)
(* record shape: kind, the atom of a scalar, the items of a list, the      *)
(* entries << key, value >> of a dict or of a model. The calls are made    *)
(* one after another, by one caller.                                       *)
(***************************************************************************)
MaxOps == 2

Scalar(a) == [kind |-> "scalar", atom |-> a, items |-> << >>, entries |-> {}]

List(s) == [kind |-> "list", atom |-> None, items |-> s, entries |-> {}]

Dict(E) == [kind |-> "dict", atom |-> None, items |-> << >>, entries |-> E]

Model(E) == [kind |-> "model", atom |-> None, items |-> << >>, entries |-> E]

HasKey(E, k) == \E e \in E : e[1] = k

\* dict.get(k) and getattr(model, k, None)
Lookup(E, k) ==
  IF HasKey(E, k) THEN (CHOOSE e \in E : e[1] = k)[2] ELSE Scalar(None)

\* dict(current).update(value) and model_copy(update=value)
Upsert(E, F) == {e \in E : ~HasKey(F, e[1])} \cup F

\* every field takes the delta value
merged_value_replacing(current, value) == value

\* _merged_value(current, value)
merged_value_by_kind(current, value) ==
  IF current.kind = "model" /\ value.kind = "dict"
  THEN Model(Upsert(current.entries, value.entries))
  ELSE IF current.kind = "list"
  THEN List(current.items \o (IF value.kind = "list" THEN value.items ELSE << value >>))
  ELSE IF current.kind = "dict" /\ value.kind = "dict"
  THEN Dict(Upsert(current.entries, value.entries))
  ELSE value

\* the fields of ProjectState the model keeps, as ProjectState(session_id=..)
\* builds them
DefaultFields ==
  [current_phase |-> Scalar("initialization"),
   architecture |-> Model({ << "data_schema", Scalar(None) >>,
                            << "deployment_strategy", Scalar(None) >> }),
   conversation_history |-> List(<< >>),
   agent_interactions |-> Dict({})]

\* _apply_delta(state, key, value) on the fields of the state; key is the
\* dotted path split at the dots. raised is TRUE when getattr or setattr
\* raises, and the fields are then as they were.
apply_delta_key(fields, key, value) ==
  IF Len(key) = 1
  THEN IF key[1] \notin DOMAIN fields
       THEN [fields |-> fields, raised |-> FALSE]
       ELSE [fields |-> [fields EXCEPT ![key[1]] = merged_value_by_kind(@, value)],
             raised |-> FALSE]
  ELSE IF key[1] \notin DOMAIN fields
       THEN [fields |-> fields, raised |-> TRUE]
       ELSE LET target == fields[key[1]]
                leaf == key[2]
                merged == merged_value_by_kind(Lookup(target.entries, leaf), value)
                set == Upsert(target.entries, { << leaf, merged >> })
            IN  IF target.kind = "dict"
                THEN [fields |-> [fields EXCEPT ![key[1]] = Dict(set)], raised |-> FALSE]
                ELSE IF target.kind = "model" /\ HasKey(target.entries, leaf)
                THEN [fields |-> [fields EXCEPT ![key[1]] = Model(set)], raised |-> FALSE]
                ELSE [fields |-> fields, raised |-> TRUE]

\* "for key, value in delta.items(): self._apply_delta(state, key, value)"
\* on the object itself: the keys before one that raises stay applied
RECURSIVE apply_delta_items(_, _, _)
apply_delta_items(fields, delta, k) ==
  IF k > Len(delta) THEN [fields |-> fields, raised |-> FALSE]
  ELSE LET one == apply_delta_key(fields, delta[k][1], delta[k][2])
       IN  IF one.raised THEN one
           ELSE apply_delta_items(one.fields, delta, k + 1)

\* model_dump(): nested models become dicts
RECURSIVE model_dump_value(_)
model_dump_value(v) ==
  CASE v.kind = "model" ->
         Dict({ << e[1], model_dump_value(e[2]) >> : e \in v.entries })
    [] v.kind = "dict" ->
         Dict({ << e[1], model_dump_value(e[2]) >> : e \in v.entries })
    [] v.kind = "list" ->
         List([i \in 1..Len(v.items) |-> model_dump_value(v.items[i])])
    [] OTHER -> v

model_dump(state) ==
  [present |-> TRUE,
   fields |-> [f \in DOMAIN state.fields |-> model_dump_value(state.fields[f])],
   updated_at |-> state.updated_at]

\* ProjectState(**state_dict): the dict under a model-typed field is
\* validated into the model
ProjectStateOf(state_dict) ==
  [present |-> TRUE,
   fields |-> [f \in DOMAIN state_dict.fields |->
                 IF f = "architecture" /\ state_dict.fields[f].kind = "dict"
                 THEN Model(state_dict.fields[f].entries)
                 ELSE state_dict.fields[f]],
   updated_at |-> state_dict.updated_at]

\* no object, no dict (Python None, a key the cache lacks)
Nothing == [present |-> FALSE, fields |-> DefaultFields, updated_at |-> 0]

\* the backend is read whether or not the session is cached
load_backend_first(cached, state_dict, now) ==
  IF state_dict.present THEN [state |-> ProjectStateOf(state_dict), got |-> TRUE]
  ELSE IF cached.present THEN [state |-> cached, got |-> TRUE]
  ELSE [state |-> [present |-> TRUE, fields |-> DefaultFields, updated_at |-> now],
        got |-> TRUE]

\* StateManager.load: the state returned, and whether db.get was called
load(cached, state_dict, now) ==
  IF cached.present THEN [state |-> cached, got |-> FALSE]
  ELSE IF state_dict.present
  THEN [state |-> ProjectStateOf(state_dict), got |-> TRUE]
  ELSE [state |-> [present |-> TRUE, fields |-> DefaultFields, updated_at |-> now],
        got |-> TRUE]

\* the stamp is left as it was
stamped_never(state, now) == state

\* state.updated_at = datetime.utcnow()
stamped(state, now) == [state EXCEPT !.updated_at = now]

\* the deltas the callers pass: one or two keys, top-level or dotted
DeltaItems ==
  { << << "current_phase" >>, Scalar("discovery") >>,
    << << "conversation_history" >>, List(<< Scalar("hello") >>) >>,
    << << "conversation_history" >>, Scalar("hello") >>,
    << << "agent_interactions" >>, Dict({ << "exporter", Scalar("1") >> }) >>,
    << << "agent_interactions" >>,
       Dict({ << "exporter", Scalar("2") >>, << "project_architect", Scalar("1") >> }) >>,
    << << "architecture" >>, Dict({ << "data_schema", Scalar("tables") >> }) >>,
    << << "architecture", "deployment_strategy" >>, Scalar("docker") >>,
    << << "no_such_field" >>, Scalar("x") >>,
    << << "no_such_field", "leaf" >>, Scalar("x") >> }

Deltas ==
  { << a >> : a \in DeltaItems }
    \cup { << ab[1], ab[2] >> :
             ab \in { x \in DeltaItems \X DeltaItems :
                        /\ x[1][1] # x[2][1]
                        /\ x[2][1] \in { << "current_phase" >>,
                                         << "no_such_field", "leaf" >> } } }

\* what another StateManager on the same backend may have saved
ForeignDumps ==
  { model_dump([present |-> TRUE,
                fields |-> [DefaultFields EXCEPT !.current_phase = Scalar("exportable")],
                updated_at |-> 0]) }

NoCall ==
  [op |-> "none", delta |-> << >>, got |-> FALSE, raised |-> FALSE,
   pre_cache |-> Nothing, pre_db |-> Nothing, ret |-> Nothing]

ManagerIdle ==
  /\ m_pc = "off"
  /\ m_cache = Nothing
  /\ m_db = Nothing
  /\ m_clock = 1
  /\ m_ops = 0
  /\ m_last = NoCall

\* StateManager(persistence_adapter) on an empty backend
ManagerInit ==
  /\ m_pc = "ready"
  /\ m_cache = Nothing
  /\ m_db = Nothing
  /\ m_clock = 1
  /\ m_ops = 0
  /\ m_last = NoCall

outside_manager ==
  << plan_vars, store_vars, request_vars, exec_vars, classify_vars, race_vars,
     diagram_vars, steps_vars >>

CanCall == m_pc = "ready" /\ m_ops < MaxOps

\* await state_manager.load(session_id)
ManagerLoad ==
  /\ CanCall
  /\ LET l == load(m_cache, m_db, m_clock)
     IN  /\ m_cache' = l.state
         /\ m_last' = [op |-> "load", delta |-> << >>, got |-> l.got, raised |-> FALSE,
                       pre_cache |-> m_cache, pre_db |-> m_db, ret |-> l.state]
  /\ m_clock' = m_clock + 1
  /\ m_ops' = m_ops + 1
  /\ UNCHANGED << m_pc, m_db >>
  /\ UNCHANGED outside_manager

\* await state_manager.update(session_id, delta), returning
ManagerUpdateReturns ==
  /\ CanCall
  /\ \E delta \in Deltas :
       LET l == load(m_cache, m_db, m_clock)
           applied == apply_delta_items(l.state.fields, delta, 1)
           state == stamped([l.state EXCEPT !.fields = applied.fields], m_clock + 1)
       IN  /\ ~applied.raised
           /\ m_db' = model_dump(state)
           /\ m_cache' = state
           /\ m_last' = [op |-> "update", delta |-> delta, got |-> l.got,
                         raised |-> FALSE, pre_cache |-> m_cache, pre_db |-> m_db,
                         ret |-> state]
  /\ m_clock' = m_clock + 2
  /\ m_ops' = m_ops + 1
  /\ UNCHANGED m_pc
  /\ UNCHANGED outside_manager

\* update, lines 34-35: applying a key raises; the object load returned,
\* which the cache holds, keeps the keys applied before it
ManagerUpdateKeyRaises ==
  /\ CanCall
  /\ \E delta \in Deltas :
       LET l == load(m_cache, m_db, m_clock)
           applied == apply_delta_items(l.state.fields, delta, 1)
       IN  /\ applied.raised
           /\ m_cache' = [l.state EXCEPT !.fields = applied.fields]
           /\ m_last' = [op |-> "update", delta |-> delta, got |-> l.got,
                         raised |-> TRUE, pre_cache |-> m_cache, pre_db |-> m_db,
                         ret |-> Nothing]
  /\ m_clock' = m_clock + 1
  /\ m_ops' = m_ops + 1
  /\ UNCHANGED << m_pc, m_db >>
  /\ UNCHANGED outside_manager

\* update, line 38: db.save raises; the object is changed and stamped and
\* the backend keeps what it had
ManagerUpdateSaveRaises ==
  /\ CanCall
  /\ \E delta \in Deltas :
       LET l == load(m_cache, m_db, m_clock)
           applied == apply_delta_items(l.state.fields, delta, 1)
           state == stamped([l.state EXCEPT !.fields = applied.fields], m_clock + 1)
       IN  /\ ~applied.raised
           /\ m_cache' = state
           /\ m_last' = [op |-> "update", delta |-> delta, got |-> l.got,
                         raised |-> TRUE, pre_cache |-> m_cache, pre_db |-> m_db,
                         ret |-> Nothing]
  /\ m_clock' = m_clock + 2
  /\ m_ops' = m_ops + 1
  /\ UNCHANGED << m_pc, m_db >>
  /\ UNCHANGED outside_manager

\* another StateManager of the same backend saves the session
BackendWritten ==
  /\ CanCall
  /\ \E d \in ForeignDumps : m_db' = d /\ m_db # d
  /\ UNCHANGED << m_pc, m_cache, m_clock, m_ops, m_last >>
  /\ UNCHANGED outside_manager

\* a new StateManager is built on the backend: its cache is empty
ManagerReplaced ==
  /\ CanCall
  /\ m_cache.present
  /\ m_cache' = Nothing
  /\ UNCHANGED << m_pc, m_db, m_clock, m_ops, m_last >>
  /\ UNCHANGED outside_manager

(***************************************************************************)
(* Diagram generation  (agents/project_architect.py,                       *)
(* utils/mermaid_validator.py)                                             *)
(***************************************************************************)
\* what running mmdc on a non-empty diagram may come to
ValidatorRuns ==
  {"no_npx", "timeout", "os_error", "compiled", "parse_error", "silent_failure"}

KeywordError ==
  "Diagram did not start with valid keyword (flowchart/graph/erDiagram/...)."

\* stderr of mmdc on a diagram it cannot parse
MmdcStderr == "Parse error on line 2"

\* validate_mermaid(code) on a non-empty code, by what happened to mmdc
validate_mermaid(run) ==
  CASE run \in {"no_npx", "timeout", "os_error"} -> [valid |-> TRUE, error |-> ""]
    [] run = "compiled" -> [valid |-> TRUE, error |-> ""]
    [] run = "parse_error" -> [valid |-> FALSE, error |-> MmdcStderr]
    [] run = "silent_failure" ->
         [valid |-> FALSE,
          error |-> "Mermaid parser reported a syntax error (no details from mmdc)."]

max_diagram_attempts == 2

\* "for attempt in range(3)"
DiagramLoopGuardThree == d_attempt < max_diagram_attempts + 1

\* "for attempt in range(max_diagram_attempts)"
DiagramLoopGuard == d_attempt < max_diagram_attempts

\* the validator error the prompt of this attempt carries: none in the
\* first prompt, last_parse_error in the correction of a later one
CarriedError == IF d_attempt > 0 THEN d_last_parse_error ELSE ""

\* lines 469-475: the diagram of the deterministic generator, an ERD for
\* the kind "erd" and a C4 context diagram for every other kind
fallback_diagram == IF d_kind = "erd" THEN "template erd" ELSE "template c4_context"

DiagramIdle ==
  /\ d_pc = "off"
  /\ d_kind = "system"
  /\ d_client = FALSE
  /\ d_attempt = 0
  /\ d_last_parse_error = ""
  /\ d_log = << >>
  /\ d_result = None

DiagramInit ==
  /\ d_pc = "start"
  /\ d_kind \in {"system", "erd"}
  /\ d_client \in BOOLEAN
  /\ d_attempt = 0
  /\ d_last_parse_error = ""
  /\ d_log = << >>
  /\ d_result = None

outside_diagram ==
  << plan_vars, store_vars, request_vars, exec_vars, classify_vars, race_vars,
     manager_vars, steps_vars >>

\* lines 469-478: the template diagram is built; without an LLM client it
\* is returned
NoClientReturnsFallback ==
  /\ d_pc = "start"
  /\ ~d_client
  /\ d_result' = fallback_diagram
  /\ d_pc' = "returned"
  /\ UNCHANGED << d_kind, d_client, d_attempt, d_last_parse_error, d_log >>
  /\ UNCHANGED outside_diagram

\* lines 480-531: the prompt is built and the loop entered
EnterLoop ==
  /\ d_pc = "start"
  /\ d_client
  /\ d_pc' = "loop"
  /\ UNCHANGED << d_kind, d_client, d_attempt, d_last_parse_error, d_log, d_result >>
  /\ UNCHANGED outside_diagram

Logged(outcome) ==
  Append(d_log, [carried |-> CarriedError, outcome |-> outcome])

\* lines 569-575 and 588-589: the LLM call or the extraction raises
AttemptLLMRaises ==
  /\ d_pc = "loop"
  /\ DiagramLoopGuard
  /\ d_log' = Logged("llm_raised")
  /\ d_attempt' = d_attempt + 1
  /\ UNCHANGED << d_pc, d_kind, d_client, d_last_parse_error, d_result >>
  /\ UNCHANGED outside_diagram

\* lines 577-579: what the LLM returned is no text starting with a Mermaid
\* keyword
AttemptNotMermaid ==
  /\ d_pc = "loop"
  /\ DiagramLoopGuard
  /\ d_log' = Logged("not_mermaid")
  /\ d_last_parse_error' = KeywordError
  /\ d_attempt' = d_attempt + 1
  /\ UNCHANGED << d_pc, d_kind, d_client, d_result >>
  /\ UNCHANGED outside_diagram

\* lines 583-587: validate_mermaid returns; a valid diagram is returned, an
\* invalid one leaves its error for the next prompt
AttemptValidated ==
  /\ d_pc = "loop"
  /\ DiagramLoopGuard
  /\ \E run \in ValidatorRuns :
       LET v == validate_mermaid(run)
       IN  /\ d_log' = Logged(run)
           /\ IF v.valid
              THEN /\ d_result' = "llm"
                   /\ d_pc' = "returned"
                   /\ UNCHANGED << d_attempt, d_last_parse_error >>
              ELSE /\ d_last_parse_error' =
                        (IF v.error # "" THEN v.error ELSE "Mermaid syntax error.")
                   /\ d_attempt' = d_attempt + 1
                   /\ UNCHANGED << d_pc, d_result >>
  /\ UNCHANGED << d_kind, d_client >>
  /\ UNCHANGED outside_diagram

\* lines 583 and 588-589: validate_mermaid raises something it does not
\* handle itself
AttemptValidatorRaises ==
  /\ d_pc = "loop"
  /\ DiagramLoopGuard
  /\ d_log' = Logged("validator_raised")
  /\ d_attempt' = d_attempt + 1
  /\ UNCHANGED << d_pc, d_kind, d_client, d_last_parse_error, d_result >>
  /\ UNCHANGED outside_diagram

\* line 591: the loop ended without a return
LoopEndsReturnsFallback ==
  /\ d_pc = "loop"
  /\ ~DiagramLoopGuard
  /\ d_result' = fallback_diagram
  /\ d_pc' = "returned"
  /\ UNCHANGED << d_kind, d_client, d_attempt, d_last_parse_error, d_log >>
  /\ UNCHANGED outside_diagram

(***************************************************************************)
(* The planner, statement by statement  (orchestrator/execution_planner.py)*)
(* _resolve_upstream runs with an explicit stack of add_with_deps frames;  *)
(* a frame holds the id it was called with and k, the index of the         *)
(* artifact its loop "for art in requires" is at (0 on entry, before the   *)
(* test of seen).                                                          *)
(***************************************************************************)
\* frames the stack may hold; Python raises RecursionError at its own limit
MaxDepth == 8

\* agent_ids after lines 118-121 of plan, for every intent
StepInputs ==
  { requested_or_default(i) :
      i \in [primary_intent : PlanIntentLabels,
             requires_agents : SeqsUpTo(RequestIds, MaxReq)] }

StepsIdle ==
  /\ s_pc = "off"
  /\ s_agent_ids = << >>
  /\ s_has = [a \in ArtifactFields |-> FALSE]
  /\ s_ctx = "plan"
  /\ s_ids = << >>
  /\ s_k = 1
  /\ s_stack = << >>
  /\ s_seen = {}
  /\ s_result = << >>
  /\ s_dseen = {}
  /\ s_dresult = << >>
  /\ s_changed = FALSE
  /\ s_produced = {}
  /\ s_i = 1
  /\ s_passes = 0
  /\ s_at_pass = 0
  /\ s_plan = << >>

\* plan has reached line 125 and calls _resolve_upstream(agent_ids, state)
StepsInit ==
  /\ s_pc = "upstream"
  /\ s_agent_ids \in StepInputs
  /\ s_has \in [ArtifactFields -> BOOLEAN]
  /\ s_ctx = "plan"
  /\ s_ids = s_agent_ids
  /\ s_k = 1
  /\ s_stack = << >>
  /\ s_seen = {}
  /\ s_result = << >>
  /\ s_dseen = {}
  /\ s_dresult = << >>
  /\ s_changed = FALSE
  /\ s_produced = {}
  /\ s_i = 1
  /\ s_passes = 0
  /\ s_at_pass = 0
  /\ s_plan = << >>

outside_steps ==
  << plan_vars, store_vars, request_vars, exec_vars, classify_vars, race_vars,
     manager_vars, diagram_vars >>

\* what no statement of _resolve_upstream touches
downstream_locals ==
  << s_pc, s_agent_ids, s_has, s_ctx, s_dseen, s_dresult, s_changed, s_produced,
     s_i, s_passes, s_at_pass, s_plan >>

\* what no statement of the loops of _resolve_downstream touches
upstream_locals == << s_ids, s_k, s_stack, s_seen, s_result >>

\* the running frame of add_with_deps
Top == s_stack[Len(s_stack)]

TopEntry == get_agent_by_id(Top.aid)

\* lines 59-60: the loop of _resolve_upstream calls add_with_deps(aid)
UpstreamCalls ==
  /\ s_pc = "upstream"
  /\ s_stack = << >>
  /\ s_k <= Len(s_ids)
  /\ s_stack' = << [aid |-> s_ids[s_k], k |-> 0] >>
  /\ s_k' = s_k + 1
  /\ UNCHANGED << s_ids, s_seen, s_result >>
  /\ UNCHANGED downstream_locals
  /\ UNCHANGED outside_steps

\* lines 38-39: the id was seen, the call returns
AddReturnsSeen ==
  /\ s_pc = "upstream" /\ s_stack # << >>
  /\ Top.k = 0
  /\ Top.aid \in s_seen
  /\ s_stack' = SubSeq(s_stack, 1, Len(s_stack) - 1)
  /\ UNCHANGED << s_ids, s_k, s_seen, s_result >>
  /\ UNCHANGED downstream_locals
  /\ UNCHANGED outside_steps

\* lines 40-49: no registry entry, or "*" in requires: appended at once
AddAppendsLeaf ==
  /\ s_pc = "upstream" /\ s_stack # << >>
  /\ Top.k = 0
  /\ Top.aid \notin s_seen
  /\ TopEntry = NoEntry \/ "*" \in Range(TopEntry.requires)
  /\ s_seen' = s_seen \cup {Top.aid}
  /\ s_result' = Append(s_result, Top.aid)
  /\ s_stack' = SubSeq(s_stack, 1, Len(s_stack) - 1)
  /\ UNCHANGED << s_ids, s_k >>
  /\ UNCHANGED downstream_locals
  /\ UNCHANGED outside_steps

\* lines 45-50: the call reaches its loop "for art in requires"
AddEntersLoop ==
  /\ s_pc = "upstream" /\ s_stack # << >>
  /\ Top.k = 0
  /\ Top.aid \notin s_seen
  /\ TopEntry # NoEntry
  /\ "*" \notin Range(TopEntry.requires)
  /\ s_stack' = [s_stack EXCEPT ![Len(s_stack)].k = Top.k + 1]
  /\ UNCHANGED << s_ids, s_k, s_seen, s_result >>
  /\ UNCHANGED downstream_locals
  /\ UNCHANGED outside_steps

\* lines 51-54: the artifact is in the state, or nothing produces it
AddSkipsArtifact ==
  /\ s_pc = "upstream" /\ s_stack # << >>
  /\ Top.k >= 1 /\ Top.k <= Len(TopEntry.requires)
  /\ \/ state_has_artifact(s_has, TopEntry.requires[Top.k])
     \/ get_producer_for_artifact(TopEntry.requires[Top.k]) = None
  /\ s_stack' = [s_stack EXCEPT ![Len(s_stack)].k = Top.k + 1]
  /\ UNCHANGED << s_ids, s_k, s_seen, s_result >>
  /\ UNCHANGED downstream_locals
  /\ UNCHANGED outside_steps

\* lines 53-55: the artifact is missing and add_with_deps(producer) is called
AddRecurses ==
  /\ s_pc = "upstream" /\ s_stack # << >>
  /\ Top.k >= 1 /\ Top.k <= Len(TopEntry.requires)
  /\ ~state_has_artifact(s_has, TopEntry.requires[Top.k])
  /\ get_producer_for_artifact(TopEntry.requires[Top.k]) # None
  /\ Len(s_stack) < MaxDepth
  /\ s_stack' =
       Append([s_stack EXCEPT ![Len(s_stack)].k = Top.k + 1],
              [aid |-> get_producer_for_artifact(TopEntry.requires[Top.k]), k |-> 0])
  /\ UNCHANGED << s_ids, s_k, s_seen, s_result >>
  /\ UNCHANGED downstream_locals
  /\ UNCHANGED outside_steps

\* lines 56-57: the loop is over, the id is appended and the call returns
AddAppends ==
  /\ s_pc = "upstream" /\ s_stack # << >>
  /\ Top.k > Len(TopEntry.requires)
  /\ s_seen' = s_seen \cup {Top.aid}
  /\ s_result' = Append(s_result, Top.aid)
  /\ s_stack' = SubSeq(s_stack, 1, Len(s_stack) - 1)
  /\ UNCHANGED << s_ids, s_k >>
  /\ UNCHANGED downstream_locals
  /\ UNCHANGED outside_steps

\* line 61 returns to line 126 of plan; _resolve_downstream starts with
\* lines 74-77
UpstreamReturnsToPlan ==
  /\ s_pc = "upstream" /\ s_stack = << >> /\ s_k > Len(s_ids)
  /\ s_ctx = "plan"
  /\ s_dseen' = Range(s_result)
  /\ s_dresult' = s_result
  /\ s_changed' = TRUE
  /\ s_pc' = "while"
  /\ UNCHANGED << s_agent_ids, s_has, s_ctx, s_produced, s_i, s_passes, s_at_pass,
                  s_plan >>
  /\ UNCHANGED upstream_locals
  /\ UNCHANGED outside_steps

\* line 61 returns to line 100; lines 101-105 append the ids not yet seen
UpstreamReturnsToPass ==
  /\ s_pc = "upstream" /\ s_stack = << >> /\ s_k > Len(s_ids)
  /\ s_ctx = "pass"
  /\ LET acc == AppendUnseen(s_result, 1,
                  [seen |-> s_dseen, result |-> s_dresult, changed |-> s_changed])
     IN  /\ s_dseen' = acc.seen
         /\ s_dresult' = acc.result
         /\ s_changed' = acc.changed
  /\ s_i' = s_i + 1
  /\ s_pc' = "for"
  /\ UNCHANGED << s_agent_ids, s_has, s_ctx, s_produced, s_passes, s_at_pass, s_plan >>
  /\ UNCHANGED upstream_locals
  /\ UNCHANGED outside_steps

\* lines 78-86: a pass is entered and produced is collected
WhileEnters ==
  /\ s_pc = "while"
  /\ s_changed
  /\ s_changed' = FALSE
  /\ s_produced' = Produced(s_dresult)
  /\ s_i' = 1
  /\ s_passes' = s_passes + 1
  /\ s_at_pass' = Len(s_dresult)
  /\ s_pc' = "for"
  /\ UNCHANGED << s_agent_ids, s_has, s_ctx, s_dseen, s_dresult, s_plan >>
  /\ UNCHANGED upstream_locals
  /\ UNCHANGED outside_steps

\* lines 91-98: the entry is not in the plan, does not require "*" and
\* requires an artifact the plan produces
IsCandidate ==
  /\ AGENT_STORE[s_i].id \notin s_dseen
  /\ "*" \notin Range(AGENT_STORE[s_i].requires)
  /\ Range(AGENT_STORE[s_i].requires) \cap s_produced # {}

\* lines 89-98: the entry is in the plan, requires "*" or requires nothing
\* that the plan produces
ForSkips ==
  /\ s_pc = "for" /\ s_i <= Len(AGENT_STORE)
  /\ ~IsCandidate
  /\ s_i' = s_i + 1
  /\ UNCHANGED << s_pc, s_agent_ids, s_has, s_ctx, s_dseen, s_dresult, s_changed,
                  s_produced, s_passes, s_at_pass, s_plan >>
  /\ UNCHANGED upstream_locals
  /\ UNCHANGED outside_steps

\* line 100: _resolve_upstream([aid], state) is called, with new locals
ForResolves ==
  /\ s_pc = "for" /\ s_i <= Len(AGENT_STORE)
  /\ IsCandidate
  /\ s_ctx' = "pass"
  /\ s_ids' = << AGENT_STORE[s_i].id >>
  /\ s_k' = 1
  /\ s_stack' = << >>
  /\ s_seen' = {}
  /\ s_result' = << >>
  /\ s_pc' = "upstream"
  /\ UNCHANGED << s_agent_ids, s_has, s_dseen, s_dresult, s_changed, s_produced, s_i,
                  s_passes, s_at_pass, s_plan >>
  /\ UNCHANGED outside_steps

\* the loop over AGENT_STORE is over; back to the test of "while changed"
ForEnds ==
  /\ s_pc = "for"
  /\ s_i > Len(AGENT_STORE)
  /\ s_pc' = "while"
  /\ UNCHANGED << s_agent_ids, s_has, s_ctx, s_dseen, s_dresult, s_changed, s_produced,
                  s_i, s_passes, s_at_pass, s_plan >>
  /\ UNCHANGED upstream_locals
  /\ UNCHANGED outside_steps

\* line 107 returns to plan, whose lines 128-138 filter by the phase; the
\* phase was read from the state at line 123 and is used here only, so it
\* is drawn here
WhileExits ==
  /\ s_pc = "while"
  /\ ~s_changed
  /\ \E phase \in Phases : s_plan' = PlanTasks(s_dresult, 1, phase)
  /\ s_pc' = "done"
  /\ UNCHANGED << s_agent_ids, s_has, s_ctx, s_dseen, s_dresult, s_changed, s_produced,
                  s_i, s_passes, s_at_pass >>
  /\ UNCHANGED upstream_locals
  /\ UNCHANGED outside_steps

(***************************************************************************)
(* Specifications                                                          *)
(***************************************************************************)
\* requests on one session, one after another
Init ==
  /\ RequestInit /\ PlanIdle /\ ExecIdle /\ ClassifyIdle /\ RaceIdle
  /\ ManagerIdle /\ DiagramIdle /\ StepsIdle
Next == RequestNext
Spec == Init /\ [][Next]_vars

\* one planner call on arbitrary input
SpecPlanInit ==
  /\ PlanInit /\ RequestIdle /\ ExecIdle /\ ClassifyIdle /\ RaceIdle
  /\ ManagerIdle /\ DiagramIdle /\ StepsIdle
SpecPlanNext == PlanCall
SpecPlan == SpecPlanInit /\ [][SpecPlanNext]_vars

\* one call of the rule-based classifier on arbitrary input
SpecClassifyInit ==
  /\ ClassifyInit /\ PlanIdle /\ RequestIdle /\ ExecIdle /\ RaceIdle
  /\ ManagerIdle /\ DiagramIdle /\ StepsIdle
SpecClassifyNext == ClassifyCall
SpecClassify == SpecClassifyInit /\ [][SpecClassifyNext]_vars

\* requests on one session that overlap
SpecRaceInit ==
  /\ RaceInit /\ PlanIdle /\ RequestIdle /\ ExecIdle /\ ClassifyIdle
  /\ ManagerIdle /\ DiagramIdle /\ StepsIdle
SpecRaceNext ==
  \/ \E p \in Procs : RaceStart(p)
  \/ \E p \in Procs : RaceLoadHit(p)
  \/ \E p \in Procs : RaceLoadMiss(p)
  \/ \E p \in Procs : RaceGetReturns(p)
  \/ \E p \in Procs : RaceTaskNoResult(p)
  \/ \E p \in Procs : RaceTaskResult(p)
  \/ \E p \in Procs : RaceUpdateSaved(p)
  \/ \E p \in Procs : RacePersist(p)
  \/ \E p \in Procs : RacePersistSaved(p)
SpecRace == SpecRaceInit /\ [][SpecRaceNext]_vars

\* calls of one StateManager, one after another
SpecManagerInit ==
  /\ ManagerInit /\ PlanIdle /\ RequestIdle /\ ExecIdle /\ ClassifyIdle
  /\ RaceIdle /\ DiagramIdle /\ StepsIdle
SpecManagerNext ==
  \/ ManagerLoad
  \/ ManagerUpdateReturns
  \/ ManagerUpdateKeyRaises
  \/ ManagerUpdateSaveRaises
  \/ BackendWritten
  \/ ManagerReplaced
SpecManager == SpecManagerInit /\ [][SpecManagerNext]_vars

\* one call of _generate_mermaid_diagram on arbitrary LLM and validator
\* behaviour
SpecDiagramInit ==
  /\ DiagramInit /\ PlanIdle /\ RequestIdle /\ ExecIdle /\ ClassifyIdle
  /\ RaceIdle /\ ManagerIdle /\ StepsIdle
SpecDiagramNext ==
  \/ NoClientReturnsFallback
  \/ EnterLoop
  \/ AttemptLLMRaises
  \/ AttemptNotMermaid
  \/ AttemptValidated
  \/ AttemptValidatorRaises
  \/ LoopEndsReturnsFallback
SpecDiagram == SpecDiagramInit /\ [][SpecDiagramNext]_vars

\* one planner call, statement by statement; a statement that can run does
\* run
SpecStepsInit ==
  /\ StepsInit /\ PlanIdle /\ RequestIdle /\ ExecIdle /\ ClassifyIdle
  /\ RaceIdle /\ ManagerIdle /\ DiagramIdle
SpecStepsNext ==
  \/ UpstreamCalls
  \/ AddReturnsSeen
  \/ AddAppendsLeaf
  \/ AddEntersLoop
  \/ AddSkipsArtifact
  \/ AddRecurses
  \/ AddAppends
  \/ UpstreamReturnsToPlan
  \/ UpstreamReturnsToPass
  \/ WhileEnters
  \/ ForSkips
  \/ ForResolves
  \/ ForEnds
  \/ WhileExits
SpecSteps == SpecStepsInit /\ [][SpecStepsNext]_vars /\ WF_vars(SpecStepsNext)

\* one call of BaseAgent.execute on arbitrary generator behaviour
SpecExecInit ==
  /\ ExecInit /\ PlanIdle /\ RequestIdle /\ ClassifyIdle /\ RaceIdle
  /\ ManagerIdle /\ DiagramIdle /\ StepsIdle
SpecExecNext ==
  \/ AttemptValid
  \/ AttemptInvalid
  \/ GenerateRaises
  \/ ReturnDegraded
SpecExec == SpecExecInit /\ [][SpecExecNext]_vars

(***************************************************************************)
(* Properties of the planner                                               *)
(***************************************************************************)
IndexInPlan(p, agent_id) ==
  IF \E i \in 1..Len(p) : p[i].agent_id = agent_id
  THEN CHOOSE i \in 1..Len(p) : p[i].agent_id = agent_id
  ELSE 0

\* C2: every task of a returned plan that requires a non-wildcard artifact
\* the session state lacks has that artifact's producer in the plan at a
\* strictly smaller index.
C2_ProducerBeforeRequester ==
  p_pc = "done" =>
    \A i \in 1..Len(p_plan) :
      \A art \in Range(get_agent_by_id(p_plan[i].agent_id).requires) :
        (art # "*" /\ ~state_has_artifact(p_has, art)) =>
          \E j \in 1..(i - 1) :
            p_plan[j].agent_id = get_producer_for_artifact(art)

\* the architect was requested alone, requirements were missing, and the
\* collector was put in front of it
C2_Witness ==
  /\ p_pc = "done"
  /\ p_intent.requires_agents = << "project_architect" >>
  /\ p_intent.primary_intent # "unknown"
  /\ ~p_has["requirements"]
  /\ p_phase = "requirements_complete"
  /\ IndexInPlan(p_plan, "requirements_collector") = 1
  /\ IndexInPlan(p_plan, "project_architect") = 2

\* the canonical order with the phase-incompatible capabilities removed
RECURSIVE FullPipelineFor(_, _)
FullPipelineFor(k, phase) ==
  IF k > Len(FULL_PIPELINE_AGENT_IDS) THEN << >>
  ELSE LET aid == FULL_PIPELINE_AGENT_IDS[k]
           rest == FullPipelineFor(k + 1, phase)
       IN  IF phase_compatible(get_agent_by_id(aid), phase)
           THEN << aid >> \o rest ELSE rest

\* C6: for an "unknown" intent or an empty capability list the plan is the
\* canonical full-pipeline order filtered by the current phase, whatever
\* the session state.
C6_UnknownGivesFullPipeline ==
  (p_pc = "done" /\ (p_intent.primary_intent = "unknown"
                     \/ p_intent.requires_agents = << >>)) =>
    PlanIds(p_plan) = FullPipelineFor(1, p_phase)

\* an "unknown" intent that still names a capability, in a phase that
\* filters the mockup agent out
C6_Witness ==
  /\ p_pc = "done"
  /\ p_intent.primary_intent = "unknown"
  /\ p_intent.requires_agents = << "exporter" >>
  /\ p_phase = "architecture_complete"
  /\ PlanIds(p_plan) = << "requirements_collector", "project_architect",
                          "execution_planner", "exporter" >>

(***************************************************************************)
(* Properties of the request loop                                          *)
(***************************************************************************)
\* the record of the session as a load would return it
RecordOf(store) ==
  IF store.cache # NoRecord THEN store.cache
  ELSE IF store.db # NoRecord THEN store.db
  ELSE DefaultState

SessionRecord == RecordOf([db |-> db, cache |-> cache])

\* the record of the session when the request started
StartRecord == RecordOf(pre)

Alternates(h) ==
  \A i \in 1..Len(h) : h[i].role = (IF i % 2 = 1 THEN "user" ELSE "assistant")

\* the two entries of the request, appended to the history it started with
HistoryPlusTurn ==
  StartRecord.conversation_history
    \o << [role |-> "user", content |-> turns],
          [role |-> "assistant", content |-> turns] >>

Failed == {i \in 1..Len(outcomes) : outcomes[i].status = "error"}

Succeeded == {i \in 1..Len(outcomes) : outcomes[i].status = "success"}

LastOf(S) == CHOOSE i \in S : \A j \in S : j <= i

\* C1: between requests, with N the number of requests that returned
\* anything but the error response, the transcript of the session has
\* length 2N and its roles alternate user, assistant, starting with user.
C1_TranscriptIsTwoPerRequest ==
  pc \in {"idle", "done"} =>
    /\ Len(SessionRecord.conversation_history) = 2 * processed
    /\ Alternates(SessionRecord.conversation_history)

\* C3: once the agent of a task has raised, the loop still reaches every
\* later task in plan order, and the request ends with a synthesized
\* reply and the turn persisted.
C3_FailingTaskDoesNotAbort ==
  Failed # {} =>
    /\ pc \in {"execute", "done", "raised", "idle"}
    /\ Len(outcomes) <= Len(the_plan)
    /\ \A i \in 1..Len(outcomes) : outcomes[i].agent_id = the_plan[i].agent_id
    /\ pc = "done" =>
         /\ Len(outcomes) = Len(the_plan)
         /\ response.kind = "ok"
         /\ response.message = synthesize_response(results)
         /\ db.conversation_history = HistoryPlusTurn
         /\ db = response.state_snapshot

\* the collector raised, the architect after it still ran and succeeded,
\* and the request answered
C3_Witness ==
  /\ pc = "done"
  /\ Len(outcomes) >= 2
  /\ outcomes[1].agent_id = "requirements_collector"
  /\ outcomes[1].status = "error"
  /\ outcomes[2].agent_id = "project_architect"
  /\ outcomes[2].status = "success"
  /\ response.kind = "ok"

C5_ReloadAddsExactlyTwo ==
  (pc = "done" /\ pre.cache = NoRecord /\ pre.db # NoRecord
     /\ response.kind # "error") =>
    /\ Len(db.conversation_history) = Len(pre.db.conversation_history) + 2
    /\ SubSeq(db.conversation_history, 1, Len(pre.db.conversation_history))
         = pre.db.conversation_history

\* C9: a request answered with anything but the error response has
\* appended one user entry then one assistant entry to the transcript it
\* started with, and the backend holds the snapshot it returned.
C9_AnsweredRequestAppendsTurn ==
  (pc = "done" /\ response.kind # "error") =>
    /\ db.conversation_history = HistoryPlusTurn
    /\ response.state_snapshot = db

\* C10: after a request the phase of the session, cached and persisted, is
\* the transition target of the last task that succeeded, and the phase
\* the request started with when no task succeeded.
C10_LastTransitionWins ==
  pc = "done" =>
    LET phase == IF Succeeded # {}
                 THEN PHASE_TRANSITION_MAP(outcomes[LastOf(Succeeded)].agent_id)
                 ELSE StartRecord.current_phase
    IN  /\ SessionRecord.current_phase = phase
        /\ Succeeded # {} => db.current_phase = phase

\* the collector and the architect both succeeded in one request, and the
\* phase is the architect's target
C10_Witness ==
  /\ pc = "done"
  /\ Cardinality(Succeeded) = 2
  /\ outcomes[LastOf(Succeeded)].agent_id = "project_architect"
  /\ StartRecord.current_phase = "requirements_complete"
  /\ db.current_phase = "architecture_complete"

(***************************************************************************)
(* Properties of BaseAgent.execute                                         *)
(***************************************************************************)
\* C8: execute calls _generate at most 3 times; it returns an output that
\* did not pass review only after exactly 3 calls, tagged degraded
\* with review_failures = 3 and carrying the last raw output, and it
\* never raises once the attempts are used up.
C8_AtMostThreeAttempts ==
  /\ e_calls <= 3
  /\ (e_pc = "returned" /\ ~e_review.is_valid) =>
       /\ e_calls = 3
       /\ e_output.status = "degraded"
       /\ e_output.review_failures = 3
       /\ e_output.content = e_raw
  /\ (e_pc = "returned" /\ e_output.status = "degraded") => ~e_review.is_valid
  /\ e_pc = "raised" => e_calls <= 3 /\ e_attempt < 3

\* three outputs were generated, none passed, the last one came back
C8_Witness ==
  /\ e_pc = "returned"
  /\ e_calls = 3
  /\ ~e_review.is_valid
  /\ e_output.status = "degraded"
  /\ e_output.review_failures = 3

(***************************************************************************)
(* Properties of the review protocol                                       *)
(***************************************************************************)
\* the weight used for a dimension, in hundredths: the declared one, or the
\* equal share of the four validators
UsedWeight(d) ==
  IF e_config.criteria[d] = Absent THEN 25 ELSE e_config.criteria[d]

SumOfWeights ==
  UsedWeight("feasibility") + UsedWeight("clarity")
    + UsedWeight("completeness") + UsedWeight("consistency")

\* the scores of the last output, in tenths, each times its weight
SumOfWeightedScores ==
  ScoreOf("feasibility", e_raw) * UsedWeight("feasibility")
    + ScoreOf("clarity", e_raw) * UsedWeight("clarity")
    + ScoreOf("completeness", e_raw) * UsedWeight("completeness")
    + ScoreOf("consistency", e_raw) * UsedWeight("consistency")

\* the weighted average is at least min_score; with no weight used the
\* score is 0.0
AverageMeetsMinimum ==
  IF SumOfWeights = 0 THEN e_config.min_score <= 0
  ELSE 10 * SumOfWeightedScores >= e_config.min_score * SumOfWeights

NoValidatorIssue ==
  \A d \in Range(Validators) : IssuesOf(d, e_raw) = << >>

\* C26: the review of an output says valid exactly when the weighted
\* average of the four validators' scores, normalised by the sum of the
\* weights used, is at least min_score and no validator reported an issue.
C26_ValidIffScoreAndNoIssue ==
  e_raw # NoOutput =>
    (e_review.is_valid <=> (AverageMeetsMinimum /\ NoValidatorIssue))

\* an empty dict scores 0.9 on average, above the default minimum, and is
\* invalid for the issues two validators reported
C26_Witness ==
  /\ e_calls > 0
  /\ e_raw.type = "dict" /\ e_raw.empty
  /\ e_config.min_score = 75
  /\ e_config.criteria["feasibility"] = Absent
  /\ AverageMeetsMinimum
  /\ Len(e_review.feedback) = 2
  /\ ~e_review.is_valid

(***************************************************************************)
(* Properties of the context of a task                                     *)
(***************************************************************************)
\* C11: the context _run_agent is called with for a task holds only the
\* fields the task's required_context names, and every field of the
\* session only when required_context holds "*".
C11_ContextIsScoped ==
  \A i \in 1..Len(outcomes) :
    outcomes[i].status # "skipped" =>
      LET named == Range(the_plan[i].required_context)
      IN  IF "*" \in named THEN outcomes[i].context = StateFields
          ELSE outcomes[i].context \subseteq named

(***************************************************************************)
(* Properties of what a request returns                                    *)
(***************************************************************************)
\* C12: a request made in manual mode with a selected agent id returns a
\* response whose plan is that one agent and whose intent is "manual",
\* without classifying, and the session record saved has fields for the
\* mode and for the selected id.
C12_ManualRunsSelectedOnly ==
  (opts.mode = "manual" /\ pc \in BetweenRequests) =>
    /\ response.kind = "ok"
    /\ PlanIds(the_plan) = << opts.selected >>
    /\ intent.primary_intent = "manual"
    /\ {"agent_selection_mode", "selected_agent_id"} \subseteq StateFields

\* C13: the response of a request that ran its plan lists one result per
\* task of the plan, the skipped and the failed ones included.
C13_ResultPerTask ==
  (pc = "done" /\ response.kind = "ok") =>
    Len(response.artifacts) = Len(the_plan)

\* C14: a call of process_request(user_input, session_id) never ends with
\* an exception, and it answers with the error response only when loading
\* failed.
C14_AlwaysReturnsResponse ==
  opts.mode = "auto" =>
    /\ pc # "raised"
    /\ (pc = "done" => response.kind \in {"ok", "no_plan", "error"})
    /\ (pc = "done" /\ response.kind = "error") => error # None

(***************************************************************************)
(* Scenarios of the rule-based classifier and the planner in a request     *)
(***************************************************************************)
\* the request is past build_plan, was classified by rules, and started
\* from the given phase with the given utterance
PlannedByRules(phase, utterance) ==
  /\ pc \in {"execute", "done", "raised"}
  /\ opts.mode = "auto"
  /\ ~llm
  /\ error = None
  /\ loaded.current_phase = phase
  /\ user_input = utterance

TaskApp == << "I", "want", "to", "build", "a", "task", "app" >>

IsKnown(agent_id) == agent_id \in RegistryIds

\* C17: a plan is returned whatever ids are requested, it holds no id the
\* registry does not know, and when other ids were requested it is the
\* plan of the request without the unknown ones.
C17_UnknownIdDropped ==
  p_pc = "done" =>
    LET known == SelectSeq(p_intent.requires_agents, IsKnown)
    IN  /\ \A i \in 1..Len(p_plan) : IsKnown(p_plan[i].agent_id)
        /\ known # << >> =>
             p_plan = plan([p_intent EXCEPT !.requires_agents = known], p_has, p_phase)

\* an unknown id was requested in front of the architect, and the plan is
\* the collector, then the architect
C17_Witness ==
  /\ p_pc = "done"
  /\ p_intent.primary_intent # "unknown"
  /\ p_intent.requires_agents = << GhostId, "project_architect" >>
  /\ ~p_has["requirements"]
  /\ p_phase = "architecture_complete"
  /\ IndexInPlan(p_plan, "requirements_collector") = 1
  /\ IndexInPlan(p_plan, "project_architect") = 2

(***************************************************************************)
(* Properties of the capability registry                                   *)
(***************************************************************************)
\* the registry entries that produce the artifact
ProducersOf(artifact) ==
  {j \in 1..Len(AGENT_STORE) : artifact \in Range(AGENT_STORE[j].produces)}

\* C28: every non-wildcard artifact that some capability of the registry
\* requires is produced by exactly one capability of the registry, the
\* one get_producer_for_artifact returns, whatever the planner is asked.
C28_RegistryIsClosed ==
  p_pc \in {"start", "done"} =>
    \A i \in 1..Len(AGENT_STORE) :
      \A art \in Range(AGENT_STORE[i].requires) :
        art # "*" =>
          /\ Cardinality(ProducersOf(art)) = 1
          /\ \A j \in ProducersOf(art) :
               get_producer_for_artifact(art) = AGENT_STORE[j].id

\* the planner was asked for the mockup agent on an empty session and put
\* the one producer of each artifact it requires in front of it
C28_Witness ==
  /\ p_pc = "done"
  /\ p_intent.primary_intent # "unknown"
  /\ p_intent.requires_agents = << "mockup_agent" >>
  /\ \A a \in ArtifactFields : ~p_has[a]
  /\ p_upstream = << "requirements_collector", "project_architect", "mockup_agent" >>

(***************************************************************************)
(* Properties of upstream resolution                                       *)
(***************************************************************************)
\* a list with its repeats removed, first occurrences kept
RECURSIVE Dedup(_, _, _)
Dedup(ids, k, acc) ==
  IF k > Len(ids) THEN acc
  ELSE IF ids[k] \in Range(acc) THEN Dedup(ids, k + 1, acc)
  ELSE Dedup(ids, k + 1, Append(acc, ids[k]))

\* every non-wildcard artifact required by a capability of ids is populated
AllRequiredPresent(ids, has) ==
  \A i \in 1..Len(ids) :
    get_agent_by_id(ids[i]) # NoEntry =>
      \A art \in Range(get_agent_by_id(ids[i]).requires) :
        art # "*" => (art \in DOMAIN has /\ has[art])

\* C30: when every non-wildcard artifact required by the requested
\* capabilities is populated in the session state, upstream resolution
\* inserts no producer: its result is the requested list without repeats.
C30_NoProducerReinserted ==
  (p_pc = "done" /\ AllRequiredPresent(requested_or_default(p_intent), p_has)) =>
    p_upstream = Dedup(requested_or_default(p_intent), 1, << >>)

\* the architect was requested twice with requirements populated, and the
\* upstream-resolved list is the architect alone
C30_Witness ==
  /\ p_pc = "done"
  /\ p_intent.primary_intent # "unknown"
  /\ p_intent.requires_agents = << "project_architect", "project_architect" >>
  /\ p_has["requirements"]
  /\ p_upstream = << "project_architect" >>

(***************************************************************************)
(* Properties of the classifier                                            *)
(***************************************************************************)
\* the phase classify_intent_node classified the request with
ClassifiedPhase ==
  IF project_state THEN loaded.current_phase ELSE "initialization"

\* C18: when the structured LLM raised or returned something that is not
\* an intent result, the request goes on past classification with the
\* rule-based result for its utterance and phase.
C18_LLMFailureFallsBack ==
  llm_reply \in {"raised", "malformed"} =>
    /\ pc \notin {"load_state", "classify_intent"}
    /\ intent = analyze_rule_based(Strip(user_input), ClassifiedPhase)

\* the LLM raised, the rules classified the request and it was answered
C18_Witness ==
  /\ llm_reply = "raised"
  /\ intent.primary_intent = "requirements_gathering"
  /\ pc = "done"
  /\ response.kind = "ok"

\* no keyword and no trigger of an intent compatible with the phase is a
\* word of the text
NoHit(text, current_phase) ==
  \A i \in 1..Len(INTENT_PATTERNS) :
    LET pattern == INTENT_PATTERNS[i]
    IN  ("*" \in Range(pattern.phase_compatibility)
           \/ current_phase \in Range(pattern.phase_compatibility)) =>
          \A j \in 1..Len(pattern.keywords \o pattern.triggers) :
            (pattern.keywords \o pattern.triggers)[j] \notin Range(text)

OnlyBlanks(ws) == \A i \in 1..Len(ws) : IsBlank(ws[i])

\* C19: for an utterance that is empty or all blanks, and for one without
\* a hit among the intents compatible with the phase, the rule-based
\* classifier returns "unknown", no agent and confidence 0.
C19_NoHitIsUnknown ==
  (c_pc = "done" /\ (OnlyBlanks(c_input) \/ NoHit(Lower(c_input), c_phase))) =>
    /\ c_result.primary_intent = "unknown"
    /\ c_result.requires_agents = << >>
    /\ c_result.confidence = 0

\* an utterance whose only keyword belongs to an intent the phase excludes
C19_Witness ==
  /\ c_pc = "done"
  /\ c_input = << "hello", "architecture" >>
  /\ c_phase = "architecture_complete"
  /\ c_result = UnknownIntent

(***************************************************************************)
(* Properties of the rule-based resolver                                   *)
(***************************************************************************)
\* the intents of the catalog the phase admits
Compatible(current_phase) ==
  {i \in 1..Len(INTENT_PATTERNS) :
     "*" \in Range(INTENT_PATTERNS[i].phase_compatibility)
       \/ current_phase \in Range(INTENT_PATTERNS[i].phase_compatibility)}

\* the keywords and triggers of intent i, as the catalog writes them, that
\* are words of the lowercased utterance
HitsOf(i, utterance) ==
  LET ks == INTENT_PATTERNS[i].keywords \o INTENT_PATTERNS[i].triggers
  IN  Cardinality({j \in 1..Len(ks) :
        \E n \in 1..Len(utterance) : ks[j] = LowerWord(utterance[n])})

AllDone == \A p \in Procs : r_pc[p] = "done"

\* every request was made with the same session id
OneSession == \A p \in Procs : r_sid[p] = r_sid[1]

\* the requests whose user entry the persisted transcript of session s holds
Recorded(s) ==
  {p \in Procs : \E i \in 1..Len(r_db[s].conversation_history) :
     r_db[s].conversation_history[i] = [role |-> "user", content |-> p]}

\* C20: requests on one session are not serialised, and when all of them
\* have returned the persisted transcript holds the two entries of each
\* request it records, once and in alternation, for at least one request
\* and possibly not for all: an update of one request can be lost.
C20_PersistedHoldsSomeRequests ==
  (AllDone /\ OneSession) =>
    /\ Recorded(r_sid[1]) # {}
    /\ Len(r_db[r_sid[1]].conversation_history) = 2 * Cardinality(Recorded(r_sid[1]))
    /\ Alternates(r_db[r_sid[1]].conversation_history)

\* a lost update: every request has returned and the persisted transcript
\* has the two entries of one request only
C20_Witness ==
  /\ AllDone
  /\ OneSession
  /\ Len(r_db[r_sid[1]].conversation_history) = 2
  /\ Cardinality(Recorded(r_sid[1])) = 1

(***************************************************************************)
(* Properties of requests on different sessions                            *)
(***************************************************************************)
\* the requests made with session s
RequestsOf(s) == {p \in Procs : r_sid[p] = s}

\* the record of a session whose only request is p, run alone
AloneRecord(p) ==
  [DefaultState EXCEPT
     !.current_phase = IF r_answered[p]
                       THEN PHASE_TRANSITION_MAP("requirements_collector")
                       ELSE "initialization",
     !.conversation_history = RaceEntries(p)]

\* C21: requests of different sessions do not interfere however they are
\* interleaved: a request holds an object of its own session only, a cache
\* entry holds an object of its session, the backend record of a session
\* holds entries of its requests only, and a session with one request ends
\* with the record that request gives when it runs alone.
C21_SessionsAreIsolated ==
  /\ \A p \in Procs : r_state[p] # 0 => r_sid[r_state[p]] = r_sid[p]
  /\ \A s \in Sessions : r_cache[s] # 0 => r_sid[r_cache[s]] = s
  /\ \A s \in Sessions : Recorded(s) \subseteq RequestsOf(s)
  /\ \A s \in Sessions : RequestsOf(s) = {} => (r_db[s] = NoRecord /\ r_cache[s] = 0)
  /\ \A p \in Procs :
       (RequestsOf(r_sid[p]) = {p} /\ r_pc[p] = "done") =>
         /\ r_db[r_sid[p]] = AloneRecord(p)
         /\ r_heap[r_cache[r_sid[p]]] = AloneRecord(p)

\* two requests on two sessions have returned, the first with a result of
\* its agent, and each session holds the record of its request
C21_Witness ==
  /\ AllDone
  /\ r_sid[1] # r_sid[2]
  /\ r_answered[1] /\ ~r_answered[2]
  /\ r_db[r_sid[1]] = AloneRecord(1)
  /\ r_db[r_sid[2]] = AloneRecord(2)

(***************************************************************************)
(* Properties of the StateManager                                          *)
(***************************************************************************)
\* C25: load reads the backend only when the session is not cached; with
\* nothing cached and no backend record it returns a default record, in
\* phase "initialization" with an empty transcript; a cached record is
\* returned as it is, whatever the backend holds.
C25_LoadIsCacheFirst ==
  /\ m_last.op \in {"load", "update"} => (m_last.got <=> ~m_last.pre_cache.present)
  /\ m_last.op = "load" =>
       /\ (~m_last.pre_cache.present /\ ~m_last.pre_db.present) =>
            /\ m_last.ret.present
            /\ m_last.ret.fields.current_phase = Scalar("initialization")
            /\ m_last.ret.fields.conversation_history = List(<< >>)
       /\ m_last.pre_cache.present => m_last.ret = m_last.pre_cache

\* the session was cached, the backend held another record of it, and load
\* returned the cached one without reading the backend
C25_Witness ==
  /\ m_last.op = "load"
  /\ m_last.pre_cache.present
  /\ m_last.pre_db.present
  /\ m_last.pre_db # model_dump(m_last.pre_cache)
  /\ ~m_last.got
  /\ m_last.ret = m_last.pre_cache

\* a step in which update returns
UpdateReturned ==
  /\ m_ops' = m_ops + 1
  /\ m_last'.op = "update"
  /\ ~m_last'.raised

\* C22: when update returns, the state it returns carries the stamp the
\* call took from the clock, the backend record is the full dump of that
\* state, and the cache entry is that state.
C22_UpdateStampsSavesCaches ==
  [][UpdateReturned =>
       /\ m_last'.ret.present
       /\ m_last'.ret.updated_at = m_clock' - 1
       /\ m_last'.ret.updated_at >= m_clock
       /\ m_db' = model_dump(m_last'.ret)
       /\ m_cache' = m_last'.ret]_vars

\* update returned on a cached session: the stamp moved forward and the
\* backend and the cache hold what was returned
C22_Witness ==
  /\ m_last.op = "update"
  /\ ~m_last.raised
  /\ m_last.pre_cache.present
  /\ m_last.pre_cache.updated_at < m_last.ret.updated_at
  /\ m_last.ret.fields.current_phase = Scalar("discovery")
  /\ m_db = model_dump(m_last.ret)
  /\ m_cache = m_last.ret

\* the fields of the state the last call started from
FieldsBefore == load(m_last.pre_cache, m_last.pre_db, 0).state.fields

\* the keys of entries
KeysOf(E) == {e[1] : e \in E}

\* entries new are entries cur with those of upd put over them
IsUpsertOf(new, cur, upd) ==
  /\ KeysOf(new) = KeysOf(cur) \cup KeysOf(upd)
  /\ \A k \in KeysOf(new) :
       Lookup(new, k) = IF k \in KeysOf(upd) THEN Lookup(upd, k) ELSE Lookup(cur, k)

\* new is what merging the delta value v into the field value cur gives
MergedByKind(new, cur, v) ==
  IF cur.kind = "list"
  THEN /\ new.kind = "list"
       /\ new.items = cur.items \o (IF v.kind = "list" THEN v.items ELSE << v >>)
  ELSE IF cur.kind \in {"dict", "model"} /\ v.kind = "dict"
  THEN /\ new.kind = cur.kind
       /\ IsUpsertOf(new.entries, cur.entries, v.entries)
  ELSE new = v

\* C24: when update returns, each field a top-level key of the delta names
\* holds the merge by its kind: a list extended by the delta value (a
\* value that is no list as one element), a dict upserted by a dict, a
\* nested model with the fields of a dict replaced and the others kept,
\* anything else replaced; the fields no key names are as they were.
C24_MergeByKind ==
  (m_last.op = "update" /\ ~m_last.raised) =>
    LET delta == m_last.delta
        named == {delta[k][1][1] : k \in 1..Len(delta)}
    IN  /\ \A k \in 1..Len(delta) :
             (/\ Len(delta[k][1]) = 1
              /\ delta[k][1][1] \in DOMAIN FieldsBefore
              /\ \A j \in 1..Len(delta) : j # k => delta[j][1][1] # delta[k][1][1])
             => MergedByKind(m_last.ret.fields[delta[k][1][1]],
                             FieldsBefore[delta[k][1][1]], delta[k][2])
        /\ \A f \in DOMAIN FieldsBefore \ named :
             m_last.ret.fields[f] = FieldsBefore[f]

\* a text was merged into a transcript that held one entry, and a phase
\* replaced the phase
C24_Witness ==
  /\ m_last.op = "update"
  /\ ~m_last.raised
  /\ m_last.delta = << << << "conversation_history" >>, Scalar("hello") >>,
                       << << "current_phase" >>, Scalar("discovery") >> >>
  /\ Len(FieldsBefore.conversation_history.items) = 1
  /\ Len(m_last.ret.fields.conversation_history.items) = 2
  /\ m_last.ret.fields.current_phase = Scalar("discovery")

\* a step in which update raises
UpdateRaised ==
  /\ m_ops' = m_ops + 1
  /\ m_last'.op = "update"
  /\ m_last'.raised

\* C23: update is atomic: when applying a key or saving raises, the cached
\* record has none of the delta's keys applied and the backend record is
\* the one it was.
C23_UpdateIsAtomic ==
  [][UpdateRaised =>
       /\ m_db' = m_db
       /\ m_cache'.fields = load(m_cache, m_db, 0).state.fields]_vars

(***************************************************************************)
(* Properties of diagram generation                                        *)
(***************************************************************************)
\* the runs of the validator after which a diagram counts as accepted: it
\* compiled, or the validator was unavailable or timed out
Accepting == {"compiled", "no_npx", "timeout", "os_error"}

\* the runs in which the validator reported an error
Rejecting == {"parse_error", "silent_failure"}

\* C27: diagram generation calls the LLM at most twice, the second prompt
\* carrying the error the validator reported on the first diagram; an LLM
\* diagram is returned only after the validator accepted it or was
\* unavailable or timed out, the template diagram is returned otherwise,
\* and every failure of the LLM or of the validator ends in one of the two.
C27_BoundedAttemptsThenTemplate ==
  /\ Len(d_log) <= 2
  /\ \A i \in 1..Len(d_log) :
       /\ i = 1 => d_log[i].carried = ""
       /\ (i > 1 /\ d_log[i - 1].outcome \in Rejecting) =>
            d_log[i].carried = validate_mermaid(d_log[i - 1].outcome).error
  /\ d_pc = "returned" =>
       /\ d_result \in {"llm", fallback_diagram}
       /\ d_result = "llm" <=>
            (d_log # << >> /\ d_log[Len(d_log)].outcome \in Accepting)
  /\ (d_pc = "loop" /\ Len(d_log) = 2) => ENABLED LoopEndsReturnsFallback

\* the first diagram did not parse, the second prompt carried the parse
\* error, the validator timed out on the second diagram and it was returned
C27_Witness ==
  /\ d_pc = "returned"
  /\ Len(d_log) = 2
  /\ d_log[1].outcome = "parse_error"
  /\ d_log[2].carried = MmdcStderr
  /\ d_log[2].outcome = "timeout"
  /\ d_result = "llm"

(***************************************************************************)
(* Properties of the resolved list and of the phase filter                 *)
(***************************************************************************)
\* the registry entries, as a set
Entries == Range(AGENT_STORE)

HasWildcardRequires(entry) == "*" \in Range(entry.requires)

\* the artifacts produced by the registry capabilities whose id is in ids
ProducedByIds(ids) ==
  UNION {Range(e.produces) : e \in {x \in Entries : x.id \in ids}}

\* the ids handed to the resolution: those of the intent, or the default
HandedToResolution ==
  IF p_intent.requires_agents = << >> \/ p_intent.primary_intent = "unknown"
  THEN Range(FULL_PIPELINE_AGENT_IDS)
  ELSE Range(p_intent.requires_agents)

CompatibleId(aid) ==
  \E e \in Entries :
    /\ e.id = aid
    /\ \E ph \in Range(e.phase_compatibility) : ph = "*" \/ ph = p_phase

\* C32: every task of a plan names a registry capability whose
\* phase_compatibility contains the wildcard or the current phase, and the
\* filter drops nothing else: the plan's ids are the resolved ids that are
\* compatible registry capabilities, in resolution order.
C32_PhaseFilterDropsOnlyIncompatible ==
  p_pc = "done" =>
    /\ \A i \in 1..Len(p_plan) : CompatibleId(p_plan[i].agent_id)
    /\ PlanIds(p_plan) = SelectSeq(p_resolved, CompatibleId)

\* the filter dropped a capability and kept two, in resolution order
C32_Witness ==
  /\ p_pc = "done"
  /\ p_phase = "requirements_complete"
  /\ p_resolved = << "requirements_collector", "project_architect",
                     "execution_planner", "mockup_agent" >>
  /\ PlanIds(p_plan) = << "requirements_collector", "project_architect",
                          "mockup_agent" >>

\* C33: a plan never contains the same capability id twice, whatever the
\* requested list (repeated ids included), the state and the phase.
C33_NoIdTwiceInPlan ==
  p_pc = "done" =>
    \A i, j \in 1..Len(p_plan) :
      p_plan[i].agent_id = p_plan[j].agent_id => i = j

\* the same id was requested twice, and it is once in the plan
C33_Witness ==
  /\ p_pc = "done"
  /\ p_intent.primary_intent # "unknown"
  /\ Len(p_intent.requires_agents) = 2
  /\ p_intent.requires_agents[1] = p_intent.requires_agents[2]
  /\ p_intent.requires_agents[1] \in Range(PlanIds(p_plan))
  /\ Len(p_plan) > 1

(***************************************************************************)
(* Properties of the correction loop of BaseAgent.execute                  *)
(***************************************************************************)
\* the input built for the next attempt holds the feedback of the review
FeedbackCarried ==
  IF e_input.type = "dict" THEN e_input.review_feedback = e_review.feedback
  ELSE /\ e_input.appended # << >>
       /\ e_review.feedback # << >> =>
            e_input.appended[Len(e_input.appended)] = e_review.feedback

\* the input built for the next attempt holds the output that failed
FailedOutputCarried == e_input.previous_output = e_raw

\* C35: every generation attempt after the first receives an input that
\* carries the output of the preceding failed attempt and the feedback of
\* its review; the loop returns at the first attempt whose review is valid,
\* with attempts equal to that attempt's number, and calls the generator no
\* more.
C35_CorrectionCarriesOutputAndFeedback ==
  /\ (e_pc = "loop" /\ e_attempt > 0) =>
       /\ ~e_review.is_valid
       /\ FailedOutputCarried
       /\ FeedbackCarried
  /\ (e_pc = "returned" /\ e_output.status # "degraded") =>
       /\ e_review.is_valid
       /\ e_output.attempts = e_attempt + 1
       /\ e_output.attempts = e_calls

(***************************************************************************)
(* Properties of the task loop                                             *)
(***************************************************************************)
\* the record after the deltas merged for the first k tasks of the request,
\* starting from the record the request loaded
RECURSIVE MergedUpTo(_)
MergedUpTo(k) ==
  IF k = 0 THEN loaded
  ELSE apply_delta(MergedUpTo(k - 1), outcomes[k].merged, 1)

\* the transcript aside, which the tasks do not write
SameArtifactsAndPhase(a, b) ==
  a.has = b.has /\ a.current_phase = b.current_phase

\* C34: within a request the tasks are invoked one at a time in plan order,
\* and the context given to the adapter of a task is extracted from the
\* session state that holds the merged deltas of every successful task
\* before it.
C34_ContextSeesEarlierDeltas ==
  pc \in {"execute", "done"} /\ the_plan # << >> =>
    /\ Len(outcomes) <= Len(the_plan)
    /\ pc = "execute" => idx = Len(outcomes) + 1
    /\ \A k \in 1..Len(outcomes) :
         /\ outcomes[k].agent_id = the_plan[k].agent_id
         /\ outcomes[k].status # "skipped" =>
              SameArtifactsAndPhase(outcomes[k].source, MergedUpTo(k - 1))

\* the architect's context was taken after the collector's requirements
\* and phase transition were merged
C34_Witness ==
  /\ pc = "execute"
  /\ Len(outcomes) = 2
  /\ outcomes[1].agent_id = "requirements_collector"
  /\ outcomes[1].status = "success"
  /\ outcomes[1].merged # << >>
  /\ ~loaded.has["requirements"]
  /\ outcomes[2].agent_id = "project_architect"
  /\ outcomes[2].status # "skipped"
  /\ outcomes[2].source.has["requirements"]
  /\ outcomes[2].source.current_phase = "requirements_complete"

\* C36: a planned task whose adapter is unavailable, or whose invocation
\* raises or yields no result, leaves the session's artifacts and phase as
\* they were before the task: deltas are merged and phase transitions fire
\* only for tasks that returned a result.
C36_NoResultNoStateChange ==
  \A k \in 1..Len(outcomes) :
    /\ outcomes[k].status \in {"skipped", "error", "no_result"} =>
         /\ SameArtifactsAndPhase(outcomes[k].after, outcomes[k].before)
         /\ outcomes[k].merged = << >>
    /\ ~SameArtifactsAndPhase(outcomes[k].after, outcomes[k].before) =>
         outcomes[k].status = "success"

\* in one request a task returned a result that changed the record, one
\* raised whose phase transition would have moved the phase, and one gave
\* no result
C36_Witness ==
  /\ pc = "execute"
  /\ \E i, j \in 1..Len(outcomes) :
       /\ outcomes[i].status = "success"
       /\ ~SameArtifactsAndPhase(outcomes[i].after, outcomes[i].before)
       /\ outcomes[j].status = "error"
       /\ PHASE_TRANSITION_MAP(outcomes[j].agent_id)
            # outcomes[j].before.current_phase
  /\ \E k \in 1..Len(outcomes) : outcomes[k].status = "no_result"

\* the ids of the plan that the planner gives for the intent of the request
\* and the record the request loaded
PlannedAtLoad == PlanIds(plan(intent, loaded.has, loaded.current_phase))

LoopFinished == pc = "done" \/ (pc = "execute" /\ idx > Len(the_plan))

\* C37: the tasks executed in a request are exactly those of the plan built
\* from the state and phase loaded at the start of the request: a phase
\* transition or an artifact written by an earlier task neither removes a
\* later task nor adds one.
C37_PlanIsFixedAtPlanTime ==
  pc \in {"execute", "done"} /\ the_plan # << >> =>
    LET planned == PlannedAtLoad
    IN  /\ Len(outcomes) <= Len(planned)
        /\ \A k \in 1..Len(outcomes) : outcomes[k].agent_id = planned[k]
        /\ LoopFinished => Len(outcomes) = Len(planned)

\* the architect moved the phase to architecture_complete, which the mockup
\* agent's phase_compatibility excludes, and the mockup task was reached
C37_Witness ==
  /\ LoopFinished
  /\ \E k \in 1..Len(outcomes) :
       /\ k > 1
       /\ outcomes[k].agent_id = "mockup_agent"
       /\ outcomes[k].before.current_phase = "architecture_complete"
       /\ ~phase_compatible(get_agent_by_id("mockup_agent"),
                            outcomes[k].before.current_phase)
       /\ outcomes[k - 1].status = "success"
       /\ outcomes[k - 1].before.current_phase = "requirements_complete"

(***************************************************************************)
(* Properties of the transcript                                            *)
(***************************************************************************)
\* the transcript a load of the session gives: the cached record's, or the
\* backend's when nothing is cached
TranscriptOf(store) == RecordOf(store).conversation_history

IsPrefix(s, t) == Len(s) <= Len(t) /\ SubSeq(t, 1, Len(s)) = s

\* C38: with one StateManager over one backend the transcript of a session
\* only grows: at every point of a request and after it, the transcript the
\* session had when the request started is a prefix of the transcript it
\* has, and so is the persisted one of the persisted one.
C38_TranscriptOnlyGrows ==
  (pc # "idle" /\ turns > 0) =>
    /\ IsPrefix(TranscriptOf(pre), TranscriptOf([db |-> db, cache |-> cache]))
    /\ IsPrefix(pre.db.conversation_history, db.conversation_history)

\* a second answered request extended the two entries of the first by two
C38_Witness ==
  /\ pc = "done"
  /\ response.kind = "ok"
  /\ Len(TranscriptOf(pre)) = 2
  /\ pre.cache # NoRecord
  /\ Len(cache.conversation_history) = 4
  /\ db = cache

\* C39: a degraded result of execute carries an empty state delta, and a
\* state delta that is not empty is returned only with an output whose
\* review was valid.
C39_DegradedCarriesNoDelta ==
  e_pc = "returned" =>
    /\ e_output.status = "degraded" => e_output.state_delta = "empty"
    /\ e_output.state_delta # "empty" =>
         /\ e_output.status # "degraded"
         /\ e_output.content = e_raw
         /\ e_review.is_valid
         /\ e_review = validate(e_output.content, e_config)

\* three outputs failed review, the last of them holding a state delta,
\* and the degraded result does not carry it
C39_Witness ==
  /\ e_pc = "returned"
  /\ e_output.status = "degraded"
  /\ e_output.review_failures = max_attempts
  /\ e_output.content.state_delta = "dict"
  /\ e_output.state_delta = "empty"

(***************************************************************************)
(* Termination of the planner                                              *)
(***************************************************************************)
\* C40: ExecutionPlanner.plan terminates for every requested list and
\* state: the recursion of add_with_deps never goes deeper than the
\* registry has capabilities, and the loop of _resolve_downstream stops
\* after at most one pass per registry capability plus a last pass that
\* adds nothing.
C40_PlanTerminates ==
  /\ <>(s_pc = "done")
  /\ [](Len(s_stack) <= Len(AGENT_STORE))
  /\ [](s_passes <= Len(AGENT_STORE) + 1)
  /\ [](s_pc = "done" => (s_passes >= 1 /\ Len(s_dresult) = s_at_pass))

\* only the collector was requested and the state is empty: two passes add
\* capabilities, the third adds nothing, and the plan is returned
C40_Witness ==
  /\ s_pc = "done"
  /\ s_agent_ids = << "requirements_collector" >>
  /\ \A a \in ArtifactFields : ~s_has[a]
  /\ s_passes = 3
  /\ Len(s_dresult) = 4
  /\ s_dresult = resolve_downstream(resolve_upstream(s_agent_ids, s_has), s_has)

====
